---------------------------- MODULE Spec2Model ----------------------------
(***************************************************************************)
(* vobjecttools: the vobject parser, property model and writer of          *)
(* src/vcardfilter.c (lines 88-618, the vobject library) as a state        *)
(* machine, with the pure helpers (strchresc, strtovprop, vobject_prop,    *)
(* vprop_meta, vobject_write2) as operators.                               *)
(*                                                                         *)
(* Conventions                                                             *)
(*  - a byte is a one-character string; NUL is the C string terminator;    *)
(*  - a C string is a sequence of bytes without NUL; a buffer is a         *)
(*    sequence of bytes that may hold NULs, positions are 1-based          *)
(*    (C index + 1) and position 0 is the NULL pointer;                    *)
(*  - NullStr is the NULL char pointer where a C string is expected;       *)
(*  - objects live in a heap H = [vo |-> vobjects, vp |-> vprops], both    *)
(*    sequences indexed by address, address 0 is NULL; H.freed lists the   *)
(*    blocks given to free(), oldest first;                                *)
(*  - a size_t value v is kept as an integer; a negative v stands for      *)
(*    2^w + v (the value after unsigned wrap-around).                      *)
(***************************************************************************)
EXTENDS Integers, Sequences, FiniteSets, TLC

VARIABLES
    heap,       \* [vo, vp]: every struct vobject and struct vprop allocated
    vc,         \* vobject_next: struct vobject *vc (0 = NULL)
    saved,      \* vobject_next: the memory at char *saved (<<>> = NULL)
    savedlen,   \* vobject_next: size_t savedlen
    savedsize,  \* vobject_next: size_t savedsize
    linenr,     \* the caller's line counter *linenr
    pc,         \* where the program is: "idle", "reading", "returned", "written", "done", "exited", "crashed" or a pure-function position
    stream,     \* the physical lines read from fp so far, oldest first
    callstart,  \* Len(stream) when the running vobject_next call started
    atEof,      \* getline has returned -1
    docs,       \* what each vobject_next call so far handed to its caller
    arg,        \* the argument of the pure function being applied
    res         \* its result

vars == <<heap, vc, saved, savedlen, savedsize, linenr, pc, stream,
          callstart, atEof, docs, arg, res>>

---------------------------------------------------------------------------
(* Bytes and C strings *)

NUL == "NUL"
NullStr == <<"(NULL)">>
Quotes == {"\"", "'"}

Min(a, b) == IF a < b THEN a ELSE b

\* tolower() on the letters the model uses
ToLower(c) ==
    CASE c = "A" -> "a" [] c = "B" -> "b" [] c = "C" -> "c" [] c = "D" -> "d"
      [] c = "E" -> "e" [] c = "F" -> "f" [] c = "G" -> "g" [] c = "I" -> "i"
      [] c = "L" -> "l" [] c = "M" -> "m" [] c = "N" -> "n" [] c = "O" -> "o"
      [] c = "P" -> "p" [] c = "R" -> "r" [] c = "T" -> "t" [] c = "V" -> "v"
      [] c = "W" -> "w" [] c = "X" -> "x" [] c = "Y" -> "y" [] c = "Z" -> "z"
      [] OTHER -> c

LowerStr(s) == [i \in 1..Len(s) |-> ToLower(s[i])]

\* strcasecmp(a, b) == 0
strcasecmp0(a, b) == a # NullStr /\ b # NullStr /\ LowerStr(a) = LowerStr(b)

\* strncasecmp(a, b, n) == 0
strncasecmp0(a, b, n) ==
    LowerStr(SubSeq(a, 1, Min(n, Len(a)))) = LowerStr(SubSeq(b, 1, Min(n, Len(b))))

\* strlen() of the C string at position p of buffer buf
strlenAt(buf, p) ==
    IF p > Len(buf) THEN 0
    ELSE IF \A i \in p..Len(buf) : buf[i] # NUL THEN Len(buf) - p + 1
    ELSE (CHOOSE i \in p..Len(buf) :
            buf[i] = NUL /\ \A j \in p..(i - 1) : buf[j] # NUL) - p

\* the C string at position p of buf
CStr(buf, p) == SubSeq(buf, p, p + strlenAt(buf, p) - 1)

\* the C string at position p when p may lie beyond the memory the program has
\* written: what is read there is the indeterminate text g
ReadStr(buf, p, g) ==
    IF p > Len(buf) THEN g
    ELSE IF p + strlenAt(buf, p) > Len(buf) THEN CStr(buf, p) \o g
    ELSE CStr(buf, p)

\* strchr(set, c) != NULL: the terminator of set matches c = NUL
strchrIn(set, c) == c \in set \/ c = NUL

---------------------------------------------------------------------------
(* strchresc: escape-aware strchr.  Returns the position in s, 0 for NULL. *)

\* strchresc with a span that closes at any quote character
RECURSIVE strchrescFrom_anyquote(_, _, _, _)
strchrescFrom_anyquote(s, c, i, esc) ==
    IF i > Len(s) THEN 0
    ELSE IF esc # NUL
         THEN strchrescFrom_anyquote(s, c, i + 1,
                                     IF s[i] \in Quotes THEN NUL ELSE esc)
    ELSE IF s[i] = c THEN i
    ELSE IF s[i] \in Quotes THEN strchrescFrom_anyquote(s, c, i + 1, s[i])
    ELSE strchrescFrom_anyquote(s, c, i + 1, esc)

RECURSIVE strchrescFrom(_, _, _, _)
strchrescFrom(s, c, i, esc) ==
    IF i > Len(s) THEN 0
    ELSE IF esc # NUL
         THEN strchrescFrom(s, c, i + 1, IF s[i] = esc THEN NUL ELSE esc)
    ELSE IF s[i] = c THEN i
    ELSE IF s[i] \in Quotes THEN strchrescFrom(s, c, i + 1, s[i])
    ELSE strchrescFrom(s, c, i + 1, esc)

strchresc(s, c) == strchrescFrom(s, c, 1, NUL)

---------------------------------------------------------------------------
(* The heap: struct vobject and struct vprop with their links *)

EmptyHeap == [vo |-> <<>>, vp |-> <<>>, freed |-> <<>>]

\* zalloc(sizeof(struct vobject)): every member zero
NewVobject(type) ==
    [type |-> type, props |-> 0, proplast |-> 0, next |-> 0, prev |-> 0,
     list |-> 0, listlast |-> 0, parent |-> 0, live |-> TRUE]

\* vp->up is a struct vprop *: u > 0 is vprop u, u < 0 is the fake vprop laid
\* over the props/proplast members of vobject -u
UpSub(H, u) == IF u > 0 THEN H.vp[u].sub ELSE H.vo[-u].props
UpLastSub(H, u) == IF u > 0 THEN H.vp[u].lastsub ELSE H.vo[-u].proplast
SetUpSub(H, u, v) ==
    IF u > 0 THEN [H EXCEPT !.vp[u].sub = v] ELSE [H EXCEPT !.vo[-u].props = v]
SetUpLastSub(H, u, v) ==
    IF u > 0 THEN [H EXCEPT !.vp[u].lastsub = v]
    ELSE [H EXCEPT !.vo[-u].proplast = v]

mkvprop(H, key, value) ==
    LET id == Len(H.vp) + 1
    IN [H |-> [H EXCEPT !.vp = Append(@,
                  [key |-> key, value |-> value, next |-> 0, prev |-> 0,
                   up |-> 0, sub |-> 0, lastsub |-> 0, live |-> TRUE])],
        id |-> id]

vprop_detach(H, p) ==
    LET up == H.vp[p].up
        nx == H.vp[p].next
        pv == H.vp[p].prev
        first(G) == IF up # 0 /\ UpSub(G, up) = p THEN SetUpSub(G, up, nx) ELSE G
        last(G) == IF up # 0 /\ UpLastSub(G, up) = p
                   THEN SetUpLastSub(G, up, pv) ELSE G
        before(G) == IF pv # 0 THEN [G EXCEPT !.vp[pv].next = nx] ELSE G
        after(G) == IF nx # 0 THEN [G EXCEPT !.vp[nx].prev = pv] ELSE G
        clear(G) == [G EXCEPT !.vp[p].prev = 0, !.vp[p].next = 0, !.vp[p].up = 0]
    IN clear(after(before(last(first(H)))))

vprop_attach_vprop(H, p, parent) ==
    LET setprev(G, last) == [G EXCEPT !.vp[p].prev = last]
        append(G, last) == IF last # 0 THEN [G EXCEPT !.vp[last].next = p]
                           ELSE SetUpSub(G, parent, p)
        setlast(G) == SetUpLastSub(G, parent, p)
        setup(G) == [G EXCEPT !.vp[p].up = parent]
        link(G, last) == setup(setlast(append(setprev(G, last), last)))
        attach(G) == link(G, UpLastSub(G, parent))
    IN attach(vprop_detach(H, p))

vprop_attach(H, p, o) == vprop_attach_vprop(H, p, -o)

\* vobject_detach that leaves the parent's listlast alone
vobject_detach_nolast(H, o) ==
    LET par == H.vo[o].parent
        nx == H.vo[o].next
        pv == H.vo[o].prev
        first(G) == IF G.vo[par].list = o THEN [G EXCEPT !.vo[par].list = nx] ELSE G
        before(G) == IF pv # 0 THEN [G EXCEPT !.vo[pv].next = nx] ELSE G
        after(G) == IF nx # 0 THEN [G EXCEPT !.vo[nx].prev = pv] ELSE G
        clear(G) == [G EXCEPT !.vo[o].next = 0, !.vo[o].prev = 0, !.vo[o].parent = 0]
    IN IF par = 0 THEN H
       ELSE clear(after(before(first(H))))

vobject_detach(H, o) ==
    LET par == H.vo[o].parent
        nx == H.vo[o].next
        pv == H.vo[o].prev
        first(G) == IF G.vo[par].list = o THEN [G EXCEPT !.vo[par].list = nx] ELSE G
        last(G) == IF G.vo[par].listlast = o
                   THEN [G EXCEPT !.vo[par].listlast = pv] ELSE G
        before(G) == IF pv # 0 THEN [G EXCEPT !.vo[pv].next = nx] ELSE G
        after(G) == IF nx # 0 THEN [G EXCEPT !.vo[nx].prev = pv] ELSE G
        clear(G) == [G EXCEPT !.vo[o].next = 0, !.vo[o].prev = 0, !.vo[o].parent = 0]
    IN IF par = 0 THEN H
       ELSE clear(after(before(last(first(H)))))

\* vobject_attach that links the child in front of its siblings
vobject_attach_first(H, o, parent) ==
    LET setnext(G, first) == [G EXCEPT !.vo[o].next = first]
        prepend(G, first) == IF first # 0 THEN [G EXCEPT !.vo[first].prev = o]
                             ELSE [G EXCEPT !.vo[parent].listlast = o]
        setfirst(G) == [G EXCEPT !.vo[parent].list = o]
        setparent(G) == [G EXCEPT !.vo[o].parent = parent]
        link(G, first) == setparent(setfirst(prepend(setnext(G, first), first)))
        attach(G) == link(G, G.vo[parent].list)
    IN attach(vobject_detach(H, o))

\* vobject_attach without the detach in front
vobject_attach_nodetach(H, o, parent) ==
    LET setprev(G, last) == [G EXCEPT !.vo[o].prev = last]
        append(G, last) == IF last # 0 THEN [G EXCEPT !.vo[last].next = o]
                           ELSE [G EXCEPT !.vo[parent].list = o]
        setlast(G) == [G EXCEPT !.vo[parent].listlast = o]
        setparent(G) == [G EXCEPT !.vo[o].parent = parent]
        link(G, last) == setparent(setlast(append(setprev(G, last), last)))
        attach(G) == link(G, G.vo[parent].listlast)
    IN attach(H)

vobject_attach(H, o, parent) ==
    LET setprev(G, last) == [G EXCEPT !.vo[o].prev = last]
        append(G, last) == IF last # 0 THEN [G EXCEPT !.vo[last].next = o]
                           ELSE [G EXCEPT !.vo[parent].list = o]
        setlast(G) == [G EXCEPT !.vo[parent].listlast = o]
        setparent(G) == [G EXCEPT !.vo[o].parent = parent]
        link(G, last) == setparent(setlast(append(setprev(G, last), last)))
        attach(G) == link(G, G.vo[parent].listlast)
    IN attach(vobject_detach(H, o))

vobject_first_child(H, o) == IF o # 0 THEN H.vo[o].list ELSE 0
vobject_next_child(H, o) == IF o # 0 THEN H.vo[o].next ELSE 0
---------------------------------------------------------------------------
(* strtovprop: one logical line to a vprop with its metadata vprops.       *)
(* line is edited in place, so the memory at line is a parameter and a     *)
(* result; g is what is read beyond the memory the program has written.    *)

RECURSIVE strtovprop_meta(_, _, _, _, _)
strtovprop_meta(H, vp, buf, meta, g) ==
    LET \* the entry is attached to vp, the loop goes on behind the ';'
        attach(A, b, next) ==
            strtovprop_meta(vprop_attach_vprop(A.H, A.id, vp), vp, b, next, g)
        make(b, next, valstr) == attach(mkvprop(H, CStr(b, meta), valstr), b, next)
        \* a value in quotes loses them: the last is overwritten, the first skipped
        unquote(b, next, eq, value, end, strip) ==
            make(IF strip THEN [b EXCEPT ![end] = NUL] ELSE b, next,
                 IF eq = 0 THEN NullStr
                 ELSE IF strip
                      THEN ReadStr([b EXCEPT ![end] = NUL], value + 1, g)
                 ELSE CStr(b, value))
        quoted(b, next, eq, value, end) ==
            unquote(b, next, eq, value, end,
                    eq # 0 /\ strchrIn(Quotes, b[value]) /\ b[value] = b[end])
        \* the segment is cut at the '=' when there is one
        cuteq(b, next, eq) ==
            quoted(b, next, eq, meta + eq, meta + eq + strlenAt(b, meta + eq) - 1)
        ateq(b, next, eq) ==
            cuteq(IF eq # 0 THEN [b EXCEPT ![meta + eq - 1] = NUL] ELSE b, next, eq)
        findeq(b, next) == ateq(b, next, strchresc(CStr(b, meta), "="))
        \* the segment is cut at the next ';' when there is one
        atsemi(semi) ==
            findeq(IF semi # 0 THEN [buf EXCEPT ![meta + semi - 1] = NUL] ELSE buf,
                   IF semi # 0 THEN meta + semi ELSE 0)
    IN IF meta = 0 THEN [H |-> H, vp |-> vp, buf |-> buf]
       ELSE atsemi(strchresc(CStr(buf, meta), ";"))

strtovprop(H, line, g) ==
    LET metas(A, b, meta) == strtovprop_meta(A.H, A.id, b, meta, g)
        make(b, colon, meta) ==
            metas(mkvprop(H, CStr(b, 1),
                          IF colon # 0 THEN CStr(b, colon + 1) ELSE NullStr),
                  b, meta)
        atsemi(b, colon, semi) ==
            make(IF semi # 0 THEN [b EXCEPT ![semi] = NUL] ELSE b, colon,
                 IF semi # 0 THEN semi + 1 ELSE 0)
        findsemi(b, colon) == atsemi(b, colon, strchresc(CStr(b, 1), ";"))
        atcolon(colon) ==
            findsemi(IF colon # 0 THEN [line EXCEPT ![colon] = NUL] ELSE line, colon)
    IN atcolon(strchresc(CStr(line, 1), ":"))

---------------------------------------------------------------------------
(* Walks over the links, as the library's readers do them *)

\* for (p = first; p; p = p->next), at most n steps: the vprops visited
RECURSIVE vprop_walk(_, _, _)
vprop_walk(H, p, n) ==
    IF p = 0 \/ n = 0 THEN <<>>
    ELSE <<p>> \o vprop_walk(H, H.vp[p].next, n - 1)

PropIds(H, o) == vprop_walk(H, H.vo[o].props, Len(H.vp))
MetaIds(H, p) == vprop_walk(H, H.vp[p].sub, Len(H.vp))

\* for (c = vobject_first_child(o); c; c = vobject_next_child(c))
RECURSIVE vobject_walk(_, _, _)
vobject_walk(H, o, n) ==
    IF o = 0 \/ n = 0 THEN <<>>
    ELSE <<o>> \o vobject_walk(H, vobject_next_child(H, o), n - 1)

ChildIds(H, o) == vobject_walk(H, vobject_first_child(H, o), Len(H.vo))

\* what a reader sees of one property: key, value and the metadata in order
MetaView(H, m) == [key |-> H.vp[m].key, value |-> H.vp[m].value]
PropView(H, p) ==
    [key |-> H.vp[p].key, value |-> H.vp[p].value,
     meta |-> [i \in 1..Len(MetaIds(H, p)) |-> MetaView(H, MetaIds(H, p)[i])]]
PropViews(H, o) == [i \in 1..Len(PropIds(H, o)) |-> PropView(H, PropIds(H, o)[i])]

\* what a reader sees of a document: type, properties, children, recursively
RECURSIVE TreeView(_, _)
TreeView(H, o) ==
    [type |-> H.vo[o].type,
     props |-> PropViews(H, o),
     children |-> [i \in 1..Len(ChildIds(H, o)) |-> TreeView(H, ChildIds(H, o)[i])]]

---------------------------------------------------------------------------
(* Fast access functions *)

\* vobject_prop with strcmp in place of strcasecmp
RECURSIVE vobject_prop_from_strcmp(_, _, _, _)
vobject_prop_from_strcmp(H, p, propname, n) ==
    IF p = 0 \/ n = 0 THEN NullStr
    ELSE IF H.vp[p].key = propname THEN H.vp[p].value
    ELSE vobject_prop_from_strcmp(H, H.vp[p].next, propname, n - 1)

\* vobject_prop: the value pointer of the first property named propname
RECURSIVE vobject_prop_from(_, _, _, _)
vobject_prop_from(H, p, propname, n) ==
    IF p = 0 \/ n = 0 THEN NullStr
    ELSE IF strcasecmp0(H.vp[p].key, propname) THEN H.vp[p].value
    ELSE vobject_prop_from(H, H.vp[p].next, propname, n - 1)

vobject_prop(H, o, propname) ==
    vobject_prop_from(H, H.vo[o].props, propname, Len(H.vp))

\* vprop_meta with strncasecmp over the length of metaname
RECURSIVE vprop_meta_from_prefix(_, _, _, _)
vprop_meta_from_prefix(H, m, metaname, n) ==
    IF m = 0 \/ n = 0 THEN NullStr
    ELSE IF strncasecmp0(H.vp[m].key, metaname, Len(metaname))
         THEN (IF H.vp[m].value # NullStr THEN H.vp[m].value ELSE <<>>)
    ELSE vprop_meta_from_prefix(H, H.vp[m].next, metaname, n - 1)

\* vprop_meta: value, "" for an entry without value, NULL when not found
RECURSIVE vprop_meta_from(_, _, _, _)
vprop_meta_from(H, m, metaname, n) ==
    IF m = 0 \/ n = 0 THEN NullStr
    ELSE IF strcasecmp0(H.vp[m].key, metaname)
         THEN (IF H.vp[m].value # NullStr THEN H.vp[m].value ELSE <<>>)
    ELSE vprop_meta_from(H, H.vp[m].next, metaname, n - 1)

vprop_meta(H, p, metaname) ==
    vprop_meta_from(H, H.vp[p].sub, metaname, Len(H.vp))
---------------------------------------------------------------------------
(* free a vobject *)

RECURSIVE vprop_free(_, _)
RECURSIVE vprop_free_subs(_, _)
\* while (vp->sub) vprop_free(vp->sub);
vprop_free_subs(H, p) ==
    IF H.vp[p].sub = 0 THEN H
    ELSE vprop_free_subs(vprop_free(H, H.vp[p].sub), p)

\* vprop_free that leaves the metadata entries allocated
vprop_free_nosubs(H, p) ==
    [vprop_detach(H, p)
        EXCEPT !.vp[p].live = FALSE, !.freed = Append(@, <<"vp", p>>)]

vprop_free(H, p) ==
    [vprop_free_subs(vprop_detach(H, p), p)
        EXCEPT !.vp[p].live = FALSE, !.freed = Append(@, <<"vp", p>>)]

RECURSIVE vobject_free(_, _)
RECURSIVE vobject_free_props(_, _)
RECURSIVE vobject_free_list(_, _)
\* while (vc->props) vprop_free(vc->props);
vobject_free_props(H, o) ==
    IF H.vo[o].props = 0 THEN H
    ELSE vobject_free_props(vprop_free(H, H.vo[o].props), o)

\* while (vc->list) vobject_free(vc->list);
vobject_free_list(H, o) ==
    IF H.vo[o].list = 0 THEN H
    ELSE vobject_free_list(vobject_free(H, H.vo[o].list), o)

vobject_free(H, o) ==
    [vobject_detach(vobject_free_list(vobject_free_props(H, o), o), o)
        EXCEPT !.vo[o].live = FALSE, !.freed = Append(@, <<"vo", o>>)]

---------------------------------------------------------------------------
(* duplication *)

RECURSIVE vprop_dup(_, _)
RECURSIVE vprop_dup_subs(_, _, _)
\* for (vp = src->sub; vp; vp = vp->next) vprop_attach_vprop(vprop_dup(vp), dst)
vprop_dup_subs(H, vp, dst) ==
    LET attach(r) == vprop_attach_vprop(r.H, r.id, dst)
        rest(G) == vprop_dup_subs(G, G.vp[vp].next, dst)
    IN IF vp = 0 THEN H
       ELSE rest(attach(vprop_dup(H, vp)))

\* a new vprop with copies of key and value and duplicates of the metadata
vprop_dup(H, src) ==
    LET subs(A) == [H |-> vprop_dup_subs(A.H, H.vp[src].sub, A.id), id |-> A.id]
    IN subs(mkvprop(H, H.vp[src].key, H.vp[src].value))

\* for (prop = src->props; prop; prop = prop->next)
\*     vprop_attach(vprop_dup(prop), dst)
RECURSIVE vobject_dup_props(_, _, _)
vobject_dup_props(H, prop, dst) ==
    LET attach(r) == vprop_attach(r.H, r.id, dst)
        rest(G) == vobject_dup_props(G, G.vp[prop].next, dst)
    IN IF prop = 0 THEN H
       ELSE rest(attach(vprop_dup(H, prop)))

\* dst = zalloc(sizeof(*dst)); dst->type = strdup(type)
AllocVobject(H, type) ==
    [H |-> [H EXCEPT !.vo = Append(@, NewVobject(type))], id |-> Len(H.vo) + 1]

\* vobject_dup_root that leaves the properties behind
vobject_dup_root_bare(H, src) == AllocVobject(H, H.vo[src].type)

vobject_dup_root(H, src) ==
    LET props(A) == [H |-> vobject_dup_props(A.H, H.vo[src].props, A.id),
                     id |-> A.id]
    IN props(AllocVobject(H, H.vo[src].type))

RECURSIVE vobject_dup(_, _)
RECURSIVE vobject_dup_children(_, _, _)
\* the child loop of vobject_dup that attaches the source's child itself
RECURSIVE vobject_dup_children_moved(_, _, _)
vobject_dup_children_moved(H, src, dst) ==
    LET rest(G) == vobject_dup_children_moved(G, vobject_next_child(G, src), dst)
    IN IF src = 0 THEN H
       ELSE rest(vobject_attach(H, src, dst))

\* for (src = vobject_first_child(src); src; src = vobject_next_child(src))
\*     vobject_attach(vobject_dup(src), dst)
vobject_dup_children(H, src, dst) ==
    LET attach(sub) == vobject_attach(sub.H, sub.id, dst)
        rest(G) == vobject_dup_children(G, vobject_next_child(G, src), dst)
    IN IF src = 0 THEN H
       ELSE rest(attach(vobject_dup(H, src)))

vobject_dup(H, src) ==
    LET children(dst) ==
            [H |-> vobject_dup_children(dst.H, vobject_first_child(dst.H, src),
                                        dst.id),
             id |-> dst.id]
    IN children(vobject_dup_root(H, src))

\* vprop_remove(prop): detach and free one property or metadata entry
vprop_remove(H, p) == vprop_free(vprop_detach(H, p), p)

---------------------------------------------------------------------------
(* FILE INPUT: vobject_next, one pass of its while (1) loop per physical     *)
(* line.  The locals of the call are the record S:                           *)
(*   H, vc, saved, savedlen, savedsize, linenr as in the code,               *)
(*   status "reading", "returned" (the loop was left), "exited" (elog      *)
(*   called exit(1)) or "crashed".                                           *)

\* <syslog.h> priorities, as the elog macro compares them
LOG_ERR == 3
LOG_INFO == 6

\* elog: after the message, if (level >= LOG_ERR) exit(1)
elogExits(level) == level >= LOG_ERR

\* vobject_next, lines 456-459: a new document, attached when there is a parent
NewChild(H, type, parent) ==
    LET attach(A) == [H |-> IF parent # 0 THEN vobject_attach(A.H, A.id, parent)
                            ELSE A.H,
                      id |-> A.id]
    IN attach(AllocVobject(H, type))

\* unsigned a > b on size_t values (a negative number is 2^w + that number)
SizeGt(a, b) ==
    IF a < 0 /\ b >= 0 THEN TRUE
    ELSE IF a >= 0 /\ b < 0 THEN FALSE
    ELSE a > b

\* (n + 63) & ~63
RoundUp64(n) == ((n + 63) \div 64) * 64

\* line 423: ret after the trailing \r \n \v \f are dropped
RECURSIVE StripLen(_, _)
StripLen(line, ret) ==
    IF ret > 0 /\ strchrIn({"\r", "\n", "VT", "\f"}, line[ret])
    THEN StripLen(line, ret - 1)
    ELSE ret

\* strcpy(buf + off, src) on the memory at buf; the bytes behind the copy stay
strcpyAt(buf, off, src) ==
    SubSeq(buf, 1, off) \o src \o <<NUL>>
        \o SubSeq(buf, off + Len(src) + 2, Len(buf))

\* the locals of a fresh call
NewCall(H, nr) ==
    [H |-> H, vc |-> 0, saved |-> <<>>, savedlen |-> 0, savedsize |-> 0,
     linenr |-> nr, status |-> "reading"]

\* lines 426-439: a line that starts with space or tab, or an empty line
Continuation(S, line, ret, ub) ==
    LET need == S.savedlen + ret - 1 + 1
        grow == SizeGt(need, S.savedsize)
        size == IF grow THEN RoundUp64(need) ELSE S.savedsize
        src == CStr(line, 2)
        copied == Len(src) + 1
    IN IF S.saved = <<>> \/ S.saved[1] = NUL
       THEN (IF elogExits(LOG_INFO)                    \* bad line
             THEN [S EXCEPT !.status = "exited"] ELSE S)
       ELSE IF size = 0 \/ (S.savedlen < 0 /\ ub = "crash")
            \/ (S.savedlen >= 0 /\ SizeGt(S.savedlen + copied, size) /\ ub = "crash")
       THEN [S EXCEPT !.status = "crashed"]
       ELSE IF S.savedlen < 0
       THEN \* the copy starts one byte before the block
            [S EXCEPT !.saved = IF src = <<>> THEN S.saved
                                ELSE strcpyAt(S.saved, 0, SubSeq(src, 2, Len(src))),
                      !.savedsize = size,
                      !.savedlen = S.savedlen + ret - 1]
       ELSE [S EXCEPT !.saved = strcpyAt(S.saved, S.savedlen, src),
                      !.savedsize = size,
                      !.savedlen = S.savedlen + ret - 1]

\* Flush that keeps the saved line while no document is open
Flush_keep(S, g) ==
    IF S.saved = <<>> \/ S.saved[1] = NUL \/ S.vc = 0 THEN S
    ELSE LET r == strtovprop(S.H, S.saved, g)
         IN [S EXCEPT !.H = vprop_attach(r.H, r.vp, S.vc),
                      !.savedlen = 0,
                      !.saved = [r.buf EXCEPT ![1] = NUL]]

\* lines 440-450: the saved logical line becomes a property of vc
Flush(S, g) ==
    IF S.saved = <<>> \/ S.saved[1] = NUL THEN S
    ELSE LET r == strtovprop(S.H, S.saved, g)
             mem == IF S.vc # 0 THEN r.buf ELSE S.saved
         IN [S EXCEPT !.H = IF S.vc # 0 THEN vprop_attach(r.H, r.vp, S.vc)
                            ELSE S.H,
                      !.savedlen = 0,
                      !.saved = [mem EXCEPT ![1] = NUL]]

\* FreshLine that lets any END line close the open document
FreshLine_anyend(S, line, ret) ==
    LET text == CStr(line, 1)
        child == NewChild(S.H, CStr(line, 7), S.vc)
        size == IF S.savedsize < ret + 1 THEN RoundUp64(ret + 1)
                ELSE S.savedsize
    IN IF strncasecmp0(text, <<"B", "E", "G", "I", "N", ":">>, 6)
       THEN [S EXCEPT !.H = child.H, !.vc = child.id]
       ELSE IF S.vc # 0 /\ strncasecmp0(text, <<"E", "N", "D", ":">>, 4)
       THEN (IF S.H.vo[S.vc].parent = 0
             THEN [S EXCEPT !.status = "returned"]
             ELSE [S EXCEPT !.vc = S.H.vo[S.vc].parent])
       ELSE [S EXCEPT !.saved = strcpyAt(S.saved, 0, text),
                      !.savedsize = size,
                      !.savedlen = ret]

\* lines 451-476: BEGIN, a matching END, or a line to save
FreshLine(S, line, ret) ==
    LET text == CStr(line, 1)
        child == NewChild(S.H, CStr(line, 7), S.vc)
        size == IF S.savedsize < ret + 1 THEN RoundUp64(ret + 1)
                ELSE S.savedsize
    IN IF strncasecmp0(text, <<"B", "E", "G", "I", "N", ":">>, 6)
       THEN [S EXCEPT !.H = child.H, !.vc = child.id]
       ELSE IF /\ S.vc # 0
               /\ strncasecmp0(text, <<"E", "N", "D", ":">>, 4)
               /\ strcasecmp0(CStr(line, 5), S.H.vo[S.vc].type)
       THEN (IF S.H.vo[S.vc].parent = 0
             THEN [S EXCEPT !.status = "returned"]
             ELSE [S EXCEPT !.vc = S.H.vo[S.vc].parent])
       ELSE [S EXCEPT !.saved = strcpyAt(S.saved, 0, text),
                      !.savedsize = size,
                      !.savedlen = ret]

\* LoopBody that opens the document of a BEGIN line before it attaches the
\* pending property
LoopBody_lateflush(S, raw, g, ub) ==
    LET ret == StripLen(raw, Len(raw))
        line == [Append(raw, NUL) EXCEPT ![ret + 1] = NUL]
        S1 == [S EXCEPT !.linenr = @ + 1]
    IN IF strchrIn({"\t", " "}, line[1])
       THEN Continuation(S1, line, ret, ub)
       ELSE IF strncasecmp0(CStr(line, 1), <<"B", "E", "G", "I", "N", ":">>, 6)
       THEN Flush(FreshLine(S1, line, ret), g)
       ELSE FreshLine(Flush(S1, g), line, ret)

\* LoopBody that counts a line only when it starts a logical line
LoopBody_freshcount(S, raw, g, ub) ==
    LET ret == StripLen(raw, Len(raw))
        line == [Append(raw, NUL) EXCEPT ![ret + 1] = NUL]
        S1 == [S EXCEPT !.linenr = @ + 1]
    IN IF strchrIn({"\t", " "}, line[1])
       THEN Continuation(S, line, ret, ub)
       ELSE FreshLine(Flush(S1, g), line, ret)

\* lines 416-477 after getline returned the physical line raw (ret >= 0)
LoopBody(S, raw, g, ub) ==
    LET ret == StripLen(raw, Len(raw))
        line == [Append(raw, NUL) EXCEPT ![ret + 1] = NUL]
        S1 == [S EXCEPT !.linenr = @ + 1]
    IN IF strchrIn({"\t", " "}, line[1])
       THEN Continuation(S1, line, ret, ub)
       ELSE FreshLine(Flush(S1, g), line, ret)

\* LoopEof whose log call returns: the open document is handed out
LoopEof_noexit(S) == [S EXCEPT !.status = "returned"]

\* lines 417-421 and 478-482: getline returned -1
LoopEof(S) ==
    IF S.vc # 0 /\ elogExits(LOG_INFO) THEN [S EXCEPT !.status = "exited"]
    ELSE [S EXCEPT !.status = "returned"]

---------------------------------------------------------------------------
(* Bounded inputs *)

MaxScanLen == 4
MaxLineLen == 5

\* all byte strings over alphabet of length at most n
RECURSIVE StringsUpTo(_, _)
StringsUpTo(alphabet, n) ==
    IF n = 0 THEN {<<>>}
    ELSE LET shorter == StringsUpTo(alphabet, n - 1)
         IN shorter \cup {Append(s, c) : s \in shorter, c \in alphabet}

ScanAlphabet == {"A", ":", ";", "\"", "'"}
ScanStrings == StringsUpTo(ScanAlphabet, MaxScanLen)
ScanChars == {":", ";"}

LineAlphabet == {"A", ":", ";", "=", "\"", "'"}
PropLines == StringsUpTo(LineAlphabet, MaxLineLen) \ {<<>>}

\* what a read beyond the written memory may find: nothing, or some text
Indeterminate == {<<>>, <<"?">>}

---------------------------------------------------------------------------
(* The state before main() has called anything *)

ParserIdle ==
    /\ heap = EmptyHeap
    /\ vc = 0
    /\ saved = <<>>
    /\ savedlen = 0
    /\ savedsize = 0
    /\ linenr = 0
    /\ stream = <<>>
    /\ callstart = 0
    /\ atEof = FALSE
    /\ docs = <<>>

parserVars == <<heap, vc, saved, savedlen, savedsize, linenr, stream,
                callstart, atEof, docs>>

---------------------------------------------------------------------------
(* strchresc applied to bounded strings *)

InitScan ==
    /\ ParserIdle
    /\ pc = "scan_call"
    /\ arg \in [str : ScanStrings, c : ScanChars]
    /\ res = [pos |-> 0]

ScanApply ==
    /\ pc = "scan_call"
    /\ pc' = "scan_done"
    /\ res' = [pos |-> strchresc(arg.str, arg.c)]
    /\ UNCHANGED <<parserVars, arg>>

NextScan == ScanApply

SpecScan == InitScan /\ [][NextScan]_vars

---------------------------------------------------------------------------
(* strtovprop applied to bounded logical lines, in a fresh buffer *)

InitProp ==
    /\ ParserIdle
    /\ pc = "prop_call"
    /\ arg \in [line : PropLines]
    /\ res = [vp |-> 0]

PropApply ==
    /\ pc = "prop_call"
    /\ \E g \in Indeterminate :
         LET r == strtovprop(EmptyHeap, Append(arg.line, NUL), g)
         IN /\ heap' = r.H
            /\ res' = [vp |-> r.vp]
    /\ pc' = "prop_done"
    /\ UNCHANGED <<vc, saved, savedlen, savedsize, linenr, stream, callstart,
                   atEof, docs, arg>>

NextProp == PropApply

SpecProp == InitProp /\ [][NextProp]_vars
---------------------------------------------------------------------------
(* Quoted spans, stated on positions *)

\* the quote character that is open when position i of s is reached, NUL when
\* position i is outside every quoted span
RECURSIVE OpenQuoteAt(_, _)
OpenQuoteAt(s, i) ==
    IF i = 1 THEN NUL
    ELSE LET q == OpenQuoteAt(s, i - 1)
         IN IF q # NUL THEN (IF s[i - 1] = q THEN NUL ELSE q)
            ELSE IF s[i - 1] \in Quotes THEN s[i - 1] ELSE NUL

\* the positions of s that hold c outside every quoted span
Unescaped(s, c) == {i \in 1..Len(s) : s[i] = c /\ OpenQuoteAt(s, i) = NUL}

Least(S) == CHOOSE x \in S : \A y \in S : x <= y

\* s cut into the pieces between the positions of P
RECURSIVE SplitFrom(_, _, _)
SplitFrom(s, P, start) ==
    LET later == {p \in P : p >= start}
    IN IF later = {} THEN <<SubSeq(s, start, Len(s))>>
       ELSE <<SubSeq(s, start, Least(later) - 1)>>
            \o SplitFrom(s, P, Least(later) + 1)

---------------------------------------------------------------------------
(* C7 *)

\* C7: strchresc(str, c) returns the leftmost position holding c outside every
\* quoted span, none when there is no such position, and the first occurrence
\* of c when str holds no quote character.
C7_EscapeAwareScan ==
    pc = "scan_done" =>
        LET U == Unescaped(arg.str, arg.c)
            all == {i \in 1..Len(arg.str) : arg.str[i] = arg.c}
        IN /\ U = {} => res.pos = 0
           /\ U # {} => res.pos = Least(U)
           /\ (\A i \in 1..Len(arg.str) : arg.str[i] \notin Quotes) =>
                  res.pos = (IF all = {} THEN 0 ELSE Least(all))

\* a delimiter inside a closed span is passed over and the one after it found
C7_Witness ==
    /\ pc = "scan_done"
    /\ arg.str = <<"\"", ":", "\"", ":">>
    /\ arg.c = ":"
    /\ res.pos = 4

---------------------------------------------------------------------------
(* C6 *)

\* one metadata segment, as the claim describes it
ClaimedMeta(seg) ==
    LET eqs == Unescaped(seg, "=")
        raw == SubSeq(seg, Least(eqs) + 1, Len(seg))
        quoted == raw # <<>> /\ raw[1] \in Quotes /\ raw[1] = raw[Len(raw)]
    IN IF eqs = {} THEN [key |-> seg, value |-> NullStr]
       ELSE [key |-> SubSeq(seg, 1, Least(eqs) - 1),
             value |-> IF quoted THEN SubSeq(raw, 2, Len(raw) - 1) ELSE raw]

\* one logical line, as the claim describes it
ClaimedProp(line) ==
    LET colons == Unescaped(line, ":")
        head == IF colons = {} THEN line ELSE SubSeq(line, 1, Least(colons) - 1)
        segs == SplitFrom(head, Unescaped(head, ";"), 1)
    IN [key |-> segs[1],
        value |-> IF colons = {} THEN NullStr
                  ELSE SubSeq(line, Least(colons) + 1, Len(line)),
        meta |-> [i \in 1..(Len(segs) - 1) |-> ClaimedMeta(segs[i + 1])]]

\* C6: strtovprop splits the line at the first unescaped ':', the head at every
\* unescaped ';' and each metadata segment at its first unescaped '=', with one
\* pair of enclosing quotes stripped from the metadata value.
C6_PropertyConstruction ==
    pc = "prop_done" => PropView(heap, res.vp) = ClaimedProp(arg.line)
---------------------------------------------------------------------------
(* vobject_prop and vprop_meta applied to documents built the way            *)
(* vobject_next builds them: strtovprop, then vprop_attach.                  *)

MaxProps == 3

\* vobject_next, lines 442-446: the logical line becomes the last property of o
AppendProperty(H, o, line, g) ==
    LET attach(r) == vprop_attach(r.H, r.vp, o)
    IN attach(strtovprop(H, Append(line, NUL), g))

LookupLines ==
    { <<"e", "m", "a", "i", "l", ":", "1">>,
      <<"E", "M", "A", "I", "L", ":", "2">>,
      <<"E", "m", "a", "i", "l">>,
      <<"T", "E", "L", ";", "T", "Z", "I", "D", "=", "a", ";", "T", "Z", "=", "b",
        ";", "t", "z", "=", "c", ":", "4">>,
      <<"T", "E", "L", ";", "W", "O", "R", "K", ";", "t", "z", "i", "d", "=", "d",
        ":", "5">> }

PropNames ==
    { <<"E", "M", "A", "I", "L">>, <<"E", "m", "a", "i", "l">>,
      <<"e", "m", "a", "i", "l">>, <<"T", "E", "L">>, <<"F", "N">> }

MetaNames == { <<"T", "Z">>, <<"t", "z", "i", "d">>, <<"W", "O", "R", "K">>,
               <<"X">> }

\* a VCALENDAR holding the document looked at, which holds a child
LookupHeap ==
    LET r1 == NewChild(EmptyHeap, <<"A">>, 0)
        r2 == NewChild(r1.H, <<"B">>, r1.id)
        r3 == NewChild(r2.H, <<"C">>, r2.id)
    IN AppendProperty(r3.H, r1.id, <<"E", "M", "A", "I", "L", ":", "0">>, <<>>)

\* the document looked at and its child
LookupDoc == 2
LookupChild == 3

InitLookup ==
    /\ heap = LookupHeap
    /\ vc = 0 /\ saved = <<>> /\ savedlen = 0 /\ savedsize = 0 /\ linenr = 0
    /\ stream = <<>> /\ callstart = 0 /\ atEof = FALSE /\ docs = <<>>
    /\ pc = "lookup"
    /\ arg = [name |-> <<>>, prop |-> 0]
    /\ res = [value |-> NullStr]

LookupAddProp ==
    /\ pc = "lookup"
    /\ Len(PropIds(heap, LookupDoc)) + Len(PropIds(heap, LookupChild)) < MaxProps
    /\ \E line \in LookupLines, o \in {LookupDoc, LookupChild} :
         heap' = AppendProperty(heap, o, line, <<>>)
    /\ UNCHANGED <<vc, saved, savedlen, savedsize, linenr, stream, callstart,
                   atEof, docs, pc, arg, res>>

LookupProp ==
    /\ pc = "lookup"
    /\ \E name \in PropNames :
         /\ arg' = [name |-> name, prop |-> 0]
         /\ res' = [value |-> vobject_prop(heap, LookupDoc, name)]
    /\ pc' = "prop_looked_up"
    /\ UNCHANGED parserVars

LookupMeta ==
    /\ pc = "lookup"
    /\ \E name \in MetaNames, i \in 1..Len(PropIds(heap, LookupDoc)) :
         /\ arg' = [name |-> name, prop |-> PropIds(heap, LookupDoc)[i]]
         /\ res' = [value |-> vprop_meta(heap, PropIds(heap, LookupDoc)[i], name)]
    /\ pc' = "meta_looked_up"
    /\ UNCHANGED parserVars

NextLookup == LookupAddProp \/ LookupProp \/ LookupMeta

SpecLookup == InitLookup /\ [][NextLookup]_vars

---------------------------------------------------------------------------
(* C8 *)

\* C8: vobject_prop(doc, name) is the value of the first property of doc's own
\* list whose name equals name ignoring case, and none when doc has no such
\* property; the properties of doc's parent and children play no part.
C8_FirstPropertyLookup ==
    pc = "prop_looked_up" =>
        LET own == PropViews(heap, LookupDoc)
            hits == {i \in 1..Len(own) : LowerStr(own[i].key) = LowerStr(arg.name)}
        IN res.value = (IF hits = {} THEN NullStr ELSE own[Least(hits)].value)

\* a property stored as 'email' is found with EMAIL, while the child holds
\* another EMAIL property
C8_Witness ==
    /\ pc = "prop_looked_up"
    /\ arg.name = <<"E", "M", "A", "I", "L">>
    /\ res.value = <<"1">>
    /\ Len(PropIds(heap, LookupChild)) > 0
    /\ PropViews(heap, LookupChild)[1].value = <<"2">>

---------------------------------------------------------------------------
(* C9 *)

C9_WitnessNoValue ==
    /\ pc = "meta_looked_up"
    /\ arg.name = <<"W", "O", "R", "K">>
    /\ res.value = <<>>
---------------------------------------------------------------------------
(* FILE OUTPUT: vobject_write2 *)

VOF_NOBREAK == 1
VOF_UTF8 == 2

\* flags & bit, for a one-bit mask
HasFlag(flags, bit) == (flags \div bit) % 2 = 1

\* (byte & 0xc0) == 0x80: the bytes 0x80..0xbf, written "x80" and "xBF" here
IsUtf8Continuation(c) == c \in {"x80", "xBF"}

\* strpbrk(s, ":;") != NULL
strpbrk0(s) == \E i \in 1..Len(s) : s[i] \in {":", ";"}

\* what a NULL char pointer given to %s can do
NullOutcomes == {"text", "crash"}

\* appendprintf: the printed text is copied to line + pos; returns the memory
\* at line up to the new terminator and the printed length
appendprintf(line, pos, text) ==
    [line |-> SubSeq(line, 1, pos) \o text, len |-> Len(text)]

\* lines 523-526: the metadata entries metas[i..] appended to line
RECURSIVE WriteMeta(_, _, _, _, _)
WriteMeta(H, metas, i, line, fill) ==
    IF i > Len(metas) THEN [line |-> line, fill |-> fill, crashed |-> FALSE]
    ELSE LET m == H.vp[metas[i]]
             text == IF strpbrk0(m.value)
                     THEN <<";">> \o m.key \o <<"=", "\"">> \o m.value \o <<"\"">>
                     ELSE <<";">> \o m.key \o <<"=">> \o m.value
             a == appendprintf(line, fill, text)
         IN IF m.value = NullStr
            THEN [line |-> line, fill |-> fill, crashed |-> TRUE]
            ELSE WriteMeta(H, metas, i + 1, a.line, fill + a.len)

\* lines 522-527: the text of one property line
PropertyLine(H, p, ub) ==
    LET a == appendprintf(<<>>, 0, H.vp[p].key)
        M == WriteMeta(H, MetaIds(H, p), 1, a.line, a.len)
        v == IF H.vp[p].value = NullStr
             THEN <<"(", "n", "u", "l", "l", ")">> ELSE H.vp[p].value
        b == appendprintf(M.line, M.fill, <<":">> \o v)
    IN IF M.crashed \/ (H.vp[p].value = NullStr /\ ub = "crash")
       THEN [line |-> <<>>, fill |-> 0, crashed |-> TRUE]
       ELSE [line |-> b.line, fill |-> M.fill + b.len, crashed |-> FALSE]

\* Utf8Todo that never backs off
Utf8Todo_noback(line, pos, todo) == todo

\* lines 539-543: todo backed off to a UTF-8 start byte, not below 72
RECURSIVE Utf8Todo(_, _, _)
Utf8Todo(line, pos, todo) ==
    IF todo > 72 /\ IsUtf8Continuation(line[pos + todo + 1])
    THEN Utf8Todo(line, pos, todo - 1)
    ELSE todo

\* the fold loop with 80 content bytes on continuation lines too
RECURSIVE FoldFrom_width80(_, _, _, _)
FoldFrom_width80(line, fill, pos, flags) ==
    IF pos >= fill THEN <<>>
    ELSE LET width == 80
             todo == IF pos + width >= fill THEN fill - pos
                     ELSE IF HasFlag(flags, VOF_UTF8)
                          THEN Utf8Todo(line, pos, width)
                     ELSE width
         IN <<(IF pos # 0 THEN <<" ">> ELSE <<>>)
               \o SubSeq(line, pos + 1, pos + todo)>>
            \o FoldFrom_width80(line, fill, pos + todo, flags)

\* lines 534-551: the physical lines of one folded property, from offset pos
RECURSIVE FoldFrom(_, _, _, _)
FoldFrom(line, fill, pos, flags) ==
    IF pos >= fill THEN <<>>
    ELSE LET width == IF pos # 0 THEN 79 ELSE 80
             todo == IF pos + width >= fill THEN fill - pos
                     ELSE IF HasFlag(flags, VOF_UTF8)
                          THEN Utf8Todo(line, pos, width)
                     ELSE width
         IN <<(IF pos # 0 THEN <<" ">> ELSE <<>>)
               \o SubSeq(line, pos + 1, pos + todo)>>
            \o FoldFrom(line, fill, pos + todo, flags)

\* lines 529-551: the physical lines of one property
PropertyOutput(line, fill, flags) ==
    IF HasFlag(flags, VOF_NOBREAK) THEN <<line>>
    ELSE FoldFrom(line, fill, 0, flags)

\* WriteProps that counts one line for every property
RECURSIVE WriteProps_oneper(_, _, _, _, _)
WriteProps_oneper(H, props, i, flags, ub) ==
    IF i > Len(props) THEN [lines |-> <<>>, nlines |-> 0, crashed |-> FALSE]
    ELSE LET P == PropertyLine(H, props[i], ub)
             out == PropertyOutput(P.line, P.fill, flags)
             rest == WriteProps_oneper(H, props, i + 1, flags, ub)
         IN IF P.crashed
            THEN [lines |-> <<>>, nlines |-> 0, crashed |-> TRUE]
            ELSE [lines |-> out \o rest.lines,
                  nlines |-> 1 + rest.nlines,
                  crashed |-> rest.crashed]

\* lines 521-552: the properties props[i..] of a document
RECURSIVE WriteProps(_, _, _, _, _)
WriteProps(H, props, i, flags, ub) ==
    IF i > Len(props) THEN [lines |-> <<>>, nlines |-> 0, crashed |-> FALSE]
    ELSE LET P == PropertyLine(H, props[i], ub)
             out == PropertyOutput(P.line, P.fill, flags)
             rest == WriteProps(H, props, i + 1, flags, ub)
         IN IF P.crashed
            THEN [lines |-> <<>>, nlines |-> 0, crashed |-> TRUE]
            ELSE [lines |-> out \o rest.lines,
                  nlines |-> Len(out) + rest.nlines,
                  crashed |-> rest.crashed]

\* the physical lines written (without their '\n'), the returned count and
\* whether the call died on a NULL pointer
RECURSIVE vobject_write2(_, _, _, _)
RECURSIVE WriteChildren(_, _, _, _, _)
WriteChildren(H, children, i, flags, ub) ==
    IF i > Len(children) THEN [lines |-> <<>>, nlines |-> 0, crashed |-> FALSE]
    ELSE LET C == vobject_write2(H, children[i], flags, ub)
             rest == WriteChildren(H, children, i + 1, flags, ub)
         IN IF C.crashed THEN C
            ELSE [lines |-> C.lines \o rest.lines,
                  nlines |-> C.nlines + rest.nlines,
                  crashed |-> rest.crashed]

\* vobject_write2 that writes the children before the properties
vobject_write2_childrenfirst(H, o, flags, ub) ==
    LET begin == <<"B", "E", "G", "I", "N", ":">> \o H.vo[o].type
        end == <<"E", "N", "D", ":">> \o H.vo[o].type
        P == WriteProps(H, PropIds(H, o), 1, flags, ub)
        C == WriteChildren(H, ChildIds(H, o), 1, flags, ub)
    IN IF P.crashed \/ C.crashed
       THEN [lines |-> <<begin>>, nlines |-> 1, crashed |-> TRUE]
       ELSE [lines |-> <<begin>> \o C.lines \o P.lines \o <<end>>,
             nlines |-> 1 + P.nlines + C.nlines + 1, crashed |-> FALSE]

vobject_write2(H, o, flags, ub) ==
    LET begin == <<"B", "E", "G", "I", "N", ":">> \o H.vo[o].type
        end == <<"E", "N", "D", ":">> \o H.vo[o].type
        P == WriteProps(H, PropIds(H, o), 1, flags, ub)
        C == WriteChildren(H, ChildIds(H, o), 1, flags, ub)
    IN IF P.crashed
       THEN [lines |-> <<begin>> \o P.lines, nlines |-> 1 + P.nlines,
             crashed |-> TRUE]
       ELSE IF C.crashed
       THEN [lines |-> <<begin>> \o P.lines \o C.lines,
             nlines |-> 1 + P.nlines + C.nlines, crashed |-> TRUE]
       ELSE [lines |-> <<begin>> \o P.lines \o C.lines \o <<end>>,
             nlines |-> 1 + P.nlines + C.nlines + 1, crashed |-> FALSE]

vobject_write(H, o, ub) == vobject_write2(H, o, 0, ub)
---------------------------------------------------------------------------
(* vobject_write2 applied to a document with one property line of a chosen   *)
(* length, plain or with one multi-byte UTF-8 character near a fold point    *)

MaxFill == 162
MaxUtf8Tail == 8

\* the places (1-based, in the property line) where the lead byte may stand
LeadPlaces == {73, 78, 80, 81, 159}

\* a value of len bytes; tail > 0 puts a lead byte at place lead of the line
\* "N:<value>" and tail continuation bytes after it
FoldValue(len, lead, tail) ==
    [i \in 1..len |->
        IF tail > 0 /\ i + 2 = lead THEN "xC3"
        ELSE IF tail > 0 /\ i + 2 > lead /\ i + 2 <= lead + tail THEN "x80"
        ELSE "a"]

\* the places (1-based, in the property line) where a carriage return may
\* stand inside the value; 0 is no carriage return
CrPlaces == {0, 80, 81}

\* the value with the byte at place cr of the line "N:<value>" made a '\r'
WithCr(value, cr) ==
    IF cr > 2 /\ cr - 2 <= Len(value) THEN [value EXCEPT ![cr - 2] = "\r"]
    ELSE value

\* the document A with the one property N, made as strtovprop makes it
FoldHeap(len, lead, tail, cr) ==
    LET r == mkvprop(NewChild(EmptyHeap, <<"A">>, 0).H, <<"N">>,
                     WithCr(FoldValue(len, lead, tail), cr))
    IN vprop_attach(r.H, r.id, 1)

InitFold ==
    /\ vc = 0 /\ saved = <<>> /\ savedlen = 0 /\ savedsize = 0 /\ linenr = 0
    /\ stream = <<>> /\ callstart = 0 /\ atEof = FALSE /\ docs = <<>>
    /\ pc = "write_call"
    /\ \E fill \in 2..MaxFill, flags \in 0..3, tail \in 0..MaxUtf8Tail,
          lead \in LeadPlaces, cr \in CrPlaces :
         /\ tail = 0 => lead = 78
         /\ tail > 0 => lead + tail <= fill /\ cr = 0
         /\ cr > 0 => cr <= fill
         /\ arg = [flags |-> flags, fill |-> fill, lead |-> lead, tail |-> tail,
                   cr |-> cr]
         /\ heap = FoldHeap(fill - 2, lead, tail, cr)
    /\ res = [lines |-> <<>>, nlines |-> 0, crashed |-> FALSE]

FoldWrite ==
    /\ pc = "write_call"
    /\ \E ub \in NullOutcomes : res' = vobject_write2(heap, 1, arg.flags, ub)
    /\ pc' = "written"
    /\ UNCHANGED <<parserVars, arg>>

NextFold == FoldWrite

SpecFold == InitFold /\ [][NextFold]_vars

---------------------------------------------------------------------------
(* C10 *)

\* the text of the one property line of the written document
WrittenLine == PropView(heap, 1).key \o <<":">> \o PropView(heap, 1).value

\* the physical lines between BEGIN and END
WrittenSegments == SubSeq(res.lines, 2, Len(res.lines) - 1)

\* the fold widths: one physical line with VOF_NOBREAK; without it a first
\* segment of min(L, 80) bytes when the flags are in F (of min(L, 72) up to
\* min(L, 80) bytes in any case), then continuation lines of one space and
\* 1..79 content bytes
FoldWidths(F) ==
    pc = "written" =>
        LET L == Len(WrittenLine)
            segs == WrittenSegments
        IN /\ HasFlag(arg.flags, VOF_NOBREAK) => segs = <<WrittenLine>>
           /\ ~HasFlag(arg.flags, VOF_NOBREAK) =>
                /\ Len(segs) >= 1
                /\ arg.flags \in F => Len(segs[1]) = Min(L, 80)
                /\ Len(segs[1]) \in Min(L, 72)..Min(L, 80)
                /\ \A i \in 2..Len(segs) :
                     /\ segs[i][1] = " "
                     /\ Len(segs[i]) - 1 \in 1..79
                /\ L <= 80 => Len(segs) = 1
                /\ L = 81 =>
                     /\ Len(segs) = 2
                     /\ segs[1] = SubSeq(WrittenLine, 1, Len(segs[1]))
                     /\ segs[2] = <<" ">> \o SubSeq(WrittenLine, Len(segs[1]) + 1, 81)

\* C10 as stated: with VOF_NOBREAK set every property is one physical line;
\* with VOF_NOBREAK clear the first segment has min(L, 80) bytes and every
\* continuation line is a space and at most 79 content bytes, so L <= 80 gives
\* one line and L = 81 two.
C10_FoldWidths_Original == FoldWidths(0..3)

\* C10 amended: the first segment has min(L, 80) bytes when VOF_UTF8 is clear
\* too, and between min(L, 72) and min(L, 80) bytes when VOF_UTF8 is set; the
\* rest as stated.
C10_FoldWidths == FoldWidths({0})

\* an 81-byte line written with flags 0 as 80 bytes and a space plus one byte
C10_Witness ==
    /\ pc = "written"
    /\ arg.flags = 0
    /\ Len(WrittenLine) = 81
    /\ Len(WrittenSegments) = 2
    /\ Len(WrittenSegments[2]) = 2
---------------------------------------------------------------------------
(* The read-write loop of the tools (testvcard.c main, votool.c cat):        *)
(*   while ((vc = vobject_next(fp, &linenr))) { write; vobject_free(vc); }   *)
(* over a file whose physical lines come from one of a few small families.   *)

MaxLines == 5

LF == <<"\n">>
CRLF == <<"\r", "\n">>

FileLines(family) ==
    CASE family = "nest" ->
           { <<"B", "E", "G", "I", "N", ":", "A">> \o LF,
             <<"b", "e", "g", "i", "n", ":", "b">> \o LF,
             <<"E", "N", "D", ":", "a">> \o LF,
             <<"E", "N", "D", ":", "B">> \o LF,
             <<"N", ":", "x">> \o LF }
      [] family = "fold" ->
           { <<"B", "E", "G", "I", "N", ":", "A">> \o CRLF,
             <<"E", "N", "D", ":", "A">> \o CRLF,
             <<"N", ":", "a", "b">> \o CRLF,
             <<" ", "c", "d">> \o CRLF,
             <<"\t", "e">> \o LF,
             LF,
             CRLF }
      [] family = "meta" ->
           { <<"B", "E", "G", "I", "N", ":", "A">> \o LF,
             <<"E", "N", "D", ":", "A">> \o LF,
             <<"F", "N", ":", "J">> \o LF,
             <<"E", ";", "T", "=", "W", ":", "j">> \o LF,
             <<"T", ";", "W", ":", "1">> \o LF,
             <<"X", ";", "T", "=", "\"", "a", ";", "b", "\"", ":", "v">> \o LF,
             <<"X", ";", "T", "=", "\"", "a", "'", "b", "\"", ":", "v">> \o LF }
      [] family = "junk" ->
           { <<"B", "E", "G", "I", "N", ":", "A">> \o LF,
             <<"E", "N", "D", ":", "A">> \o LF,
             <<"X">> \o CRLF,
             <<"\t", "y">> \o LF,
             CRLF }

Families == {"nest", "fold", "meta", "junk"}

\* what happens once the running program has touched memory it does not own
UbOutcomes == {"crash", "survive"}

\* the locals of the running vobject_next call
Locals ==
    [H |-> heap, vc |-> vc, saved |-> saved, savedlen |-> savedlen,
     savedsize |-> savedsize, linenr |-> linenr, status |-> "reading"]

SetLocals(S) ==
    /\ heap' = S.H
    /\ vc' = S.vc
    /\ saved' = S.saved
    /\ savedlen' = S.savedlen
    /\ savedsize' = S.savedsize
    /\ linenr' = S.linenr

Init ==
    /\ ParserIdle
    /\ pc = "idle"
    /\ arg \in [family : Families]
    /\ res = [lines |-> <<>>, nlines |-> 0, crashed |-> FALSE]

\* main calls vobject_next(fp, &linenr)
Call ==
    /\ pc = "idle"
    /\ SetLocals(NewCall(heap, linenr))
    /\ callstart' = Len(stream)
    /\ pc' = "reading"
    /\ UNCHANGED <<stream, atEof, docs, arg, res>>

\* getline returns one more physical line
ReadLine ==
    /\ pc = "reading"
    /\ ~atEof
    /\ Len(stream) < MaxLines
    /\ \E raw \in FileLines(arg.family), g \in Indeterminate, ub \in UbOutcomes :
         \E S \in {LoopBody(Locals, raw, g, ub)} :
            /\ SetLocals(S)
            /\ stream' = Append(stream, raw)
            /\ pc' = S.status
            /\ docs' = IF S.status = "returned"
                       THEN Append(docs, TreeView(S.H, S.vc)) ELSE docs
    /\ UNCHANGED <<callstart, atEof, arg, res>>

\* getline returns -1
ReadEof ==
    /\ pc = "reading"
    /\ atEof' = TRUE
    /\ \E S \in {LoopEof(Locals)} :
         /\ SetLocals(S)
         /\ pc' = IF S.status = "exited" THEN "exited"
                  ELSE IF S.vc # 0 THEN "returned" ELSE "done"
         /\ docs' = IF S.status = "returned" /\ S.vc # 0
                    THEN Append(docs, TreeView(S.H, S.vc)) ELSE docs
    /\ UNCHANGED <<stream, callstart, arg, res>>

\* main writes the document: vobject_write(vc, stdout)
WriteDoc ==
    /\ pc = "returned"
    /\ \E ub \in NullOutcomes :
         LET W == vobject_write(heap, vc, ub)
         IN /\ res' = W
            /\ pc' = IF W.crashed THEN "crashed" ELSE "written"
    /\ UNCHANGED <<parserVars, arg>>

\* main frees the document: vobject_free(vc)
FreeDoc ==
    /\ pc = "written"
    /\ heap' = vobject_free(heap, vc)
    /\ pc' = "idle"
    /\ UNCHANGED <<vc, saved, savedlen, savedsize, linenr, stream, callstart,
                   atEof, docs, arg, res>>

Next == Call \/ ReadLine \/ ReadEof \/ WriteDoc \/ FreeDoc

Spec == Init /\ [][Next]_vars

---------------------------------------------------------------------------
(* The documented reading of a stream of physical lines: a stack of open   *)
(* documents (BEGIN pushes, a matching END pops), the pending logical line *)
(* (a property line and the remainders of its continuation lines) and the  *)
(* top-level documents completed so far.                                   *)

\* the content of a physical line: trailing \r \n \v \f dropped
LineText(raw) == SubSeq(raw, 1, StripLen(raw, Len(raw)))

IsBeginLine(t) == strncasecmp0(t, <<"B", "E", "G", "I", "N", ":">>, 6)
IsEndLine(t) == strncasecmp0(t, <<"E", "N", "D", ":">>, 4)
IsContinuationLine(t) == t # <<>> /\ t[1] \in {" ", "\t"}

RefInit ==
    [stack |-> <<>>, done |-> <<>>, pending |-> <<>>, nprops |-> 0,
     balanced |-> TRUE, clean |-> TRUE]

\* the open documents as one tree: every open document is the last child of
\* the one below it on the stack
RECURSIVE RefCollapse(_, _)
RefCollapse(stack, i) ==
    IF i = Len(stack) THEN stack[i]
    ELSE [type |-> stack[i].type,
          children |-> Append(stack[i].children, RefCollapse(stack, i + 1))]

RefPop(R, idx) ==
    LET n == Len(R.stack)
        top == R.stack[n]
    IN IF n = 1
       THEN [R EXCEPT !.stack = <<>>, !.pending = <<>>, !.nprops = 0,
                      !.done = Append(@, [tree |-> top, nprops |-> R.nprops,
                                          end |-> idx])]
       ELSE [R EXCEPT !.stack = [SubSeq(R.stack, 1, n - 1) EXCEPT
                                    ![n - 1].children = Append(@, top)],
                      !.pending = <<>>]

RefStep(R, raw, idx) ==
    LET t == LineText(raw)
        open == R.stack # <<>>
    IN IF t = <<>>
       THEN [R EXCEPT !.clean = @ /\ ~open]
       ELSE IF IsContinuationLine(t)
       THEN (IF R.pending # <<>>
             THEN [R EXCEPT !.pending = @ \o Tail(t)]
             ELSE [R EXCEPT !.clean = @ /\ ~open])
       ELSE IF IsBeginLine(t)
       THEN [R EXCEPT !.stack = Append(@, [type |-> SubSeq(t, 7, Len(t)),
                                            children |-> <<>>]),
                      !.pending = <<>>]
       ELSE IF open /\ IsEndLine(t)
               /\ strcasecmp0(SubSeq(t, 5, Len(t)), R.stack[Len(R.stack)].type)
       THEN RefPop(R, idx)
       ELSE [R EXCEPT !.pending = t,
                      !.nprops = IF open THEN @ + 1 ELSE @,
                      !.balanced = @ /\ ~(open /\ IsEndLine(t))]

RECURSIVE RefRun(_, _)
RefRun(lines, n) ==
    IF n = 0 THEN RefInit ELSE RefStep(RefRun(lines, n - 1), lines[n], n)

Ref == RefRun(stream, Len(stream))

\* a returned tree reduced to its bracket structure, and its property count
RECURSIVE ViewShape(_)
ViewShape(T) ==
    [type |-> T.type,
     children |-> [i \in 1..Len(T.children) |-> ViewShape(T.children[i])]]

RECURSIVE ViewProps(_)
RECURSIVE ViewPropsOf(_, _)
ViewPropsOf(cs, n) ==
    IF n = 0 THEN 0 ELSE ViewProps(cs[n]) + ViewPropsOf(cs, n - 1)
ViewProps(T) == Len(T.props) + ViewPropsOf(T.children, Len(T.children))

\* the root above o, and how many documents are open down to o
RECURSIVE RootOf(_, _, _)
RootOf(H, o, n) ==
    IF o = 0 \/ n = 0 \/ H.vo[o].parent = 0 THEN o
    ELSE RootOf(H, H.vo[o].parent, n - 1)

RECURSIVE DepthOf(_, _, _)
DepthOf(H, o, n) ==
    IF o = 0 \/ n = 0 THEN 0 ELSE 1 + DepthOf(H, H.vo[o].parent, n - 1)

\* the running vobject_next call ended the process: exit(1), or a crash in
\* the parser (not in the writer)
ParserDied == pc = "exited" \/ (pc = "crashed" /\ ~res.crashed)

\* the stream read so far holds well-formed documents only: every END inside a
\* document matches, no empty line and no stray continuation inside a document,
\* and at end of input every document has been closed
WellFormedStream ==
    Ref.balanced /\ Ref.clean /\ (atEof => Ref.stack = <<>>)

---------------------------------------------------------------------------
(* C1 *)

\* vobject_next over the written physical lines, each given back its '\n'
RECURSIVE ParseText(_, _, _, _)
ParseText(S, lines, i, g) ==
    IF i > Len(lines) \/ S.status # "reading" THEN S
    ELSE ParseText(LoopBody(S, lines[i] \o LF, g, "crash"), lines, i + 1, g)

\* the text written for T parses again to a tree equal to T
ParsesBackTo(lines, T, g) ==
    LET S == ParseText(NewCall(EmptyHeap, 0), lines, 1, g)
    IN S.status = "returned" /\ S.vc # 0 /\ TreeView(S.H, S.vc) = T

\* every line that is neither BEGIN, END, a continuation nor empty has the
\* form name[;metadata]:value
PropertyLinesHaveColon ==
    \A i \in 1..Len(stream) :
        LET t == LineText(stream[i])
        IN (t # <<>> /\ ~IsContinuationLine(t) /\ ~IsBeginLine(t) /\ ~IsEndLine(t))
           => \E j \in 1..Len(t) : t[j] = ":"

\* C1: every tree returned by vobject_next from well-formed input, written
\* with VOF_NOBREAK and parsed again, gives a tree equal in type, in the
\* ordered properties (name, value, ordered metadata) and in the ordered
\* children, recursively.
C1_RoundTrip ==
    (pc = "returned" /\ ~atEof /\ WellFormedStream /\ PropertyLinesHaveColon) =>
        \A ub \in NullOutcomes, g \in Indeterminate :
            LET W == vobject_write2(heap, vc, VOF_NOBREAK, ub)
            IN /\ ~W.crashed
               /\ ParsesBackTo(W.lines, TreeView(heap, vc), g)

---------------------------------------------------------------------------
(* C2 *)

\* C2: when the input ends while a document is still open, the vobject_next
\* call returns NULL: no document is handed to the caller and every vobject of
\* the partial tree has been freed.
C2_EofOpenDocument ==
    (atEof /\ Ref.stack # <<>>) =>
        /\ pc = "done"
        /\ Len(docs) = Len(Ref.done)
        /\ \A o \in 1..Len(heap.vo) : ~heap.vo[o].live

---------------------------------------------------------------------------
(* C3 *)

\* C3: on a stream of well-formed top-level documents the i-th call returns
\* the i-th document with its nested children, having read no line beyond
\* that document's closing END; the call after the last document returns
\* none; lines between documents end up in no returned tree (a returned tree
\* holds exactly the properties of the lines inside its BEGIN ... END).
C3_OneDocumentPerCall ==
    WellFormedStream =>
        /\ ~ParserDied
        /\ Len(docs) = Len(Ref.done)
        /\ \A i \in 1..Len(docs) :
             /\ ViewShape(docs[i]) = Ref.done[i].tree
             /\ ViewProps(docs[i]) = Ref.done[i].nprops
        /\ pc = "returned" => Len(stream) = Ref.done[Len(docs)].end
        /\ pc = "done" => atEof

---------------------------------------------------------------------------
(* C4 *)

BeginA == <<"B", "E", "G", "I", "N", ":", "A">> \o LF
BeginB == <<"b", "e", "g", "i", "n", ":", "b">> \o LF
EndB == <<"E", "N", "D", ":", "B">> \o LF
EndA == <<"E", "N", "D", ":", "a">> \o LF

\* the tree of the running call mirrors the brackets read so far: as many
\* documents open as BEGINs without END, vc the innermost, children in order
C4_Mirror ==
    (pc \in {"reading", "returned"} /\ ~atEof /\ Ref.balanced) =>
        IF Ref.stack # <<>>
        THEN /\ vc # 0
             /\ DepthOf(heap, vc, Len(heap.vo)) = Len(Ref.stack)
             /\ heap.vo[vc].type = Ref.stack[Len(Ref.stack)].type
             /\ ViewShape(TreeView(heap, RootOf(heap, vc, Len(heap.vo))))
                    = RefCollapse(Ref.stack, 1)
        ELSE /\ pc = "reading" => vc = 0
             /\ pc = "returned" =>
                    /\ heap.vo[vc].parent = 0
                    /\ ViewShape(TreeView(heap, vc)) = Ref.done[Len(Ref.done)].tree

\* a BEGIN line is never an error: the call reads on with the new document open
C4_BeginNeverFails ==
    (Len(stream) > callstart /\ IsBeginLine(LineText(stream[Len(stream)]))
        /\ ~atEof /\ pc \in {"reading", "returned", "exited", "crashed"}
        /\ ~res.crashed)
    => /\ pc = "reading"
       /\ vc = Len(heap.vo)
       /\ heap.vo[vc].list = 0 /\ heap.vo[vc].props = 0
       /\ heap.vo[vc].parent # 0 => heap.vo[heap.vo[vc].parent].listlast = vc

\* BEGIN:A / BEGIN:B / END:B / END:A: root A, one child B, no properties
C4_Example ==
    (pc = "returned" /\ stream = <<BeginA, BeginB, EndB, EndA>>) =>
        TreeView(heap, vc) =
            [type |-> <<"A">>, props |-> <<>>,
             children |-> <<[type |-> <<"b">>, props |-> <<>>,
                             children |-> <<>>]>>]

\* C4: a BEGIN read while a document is open creates a child appended last to
\* the innermost open document and is never an error, a BEGIN with no open
\* document creates the root, a matching END (case ignored) closes exactly
\* one level; so the tree mirrors the bracket structure, children in BEGIN
\* order, and BEGIN:A / BEGIN:B / END:B / END:A gives root A with one child B.
C4_Nesting == C4_Mirror /\ C4_BeginNeverFails /\ C4_Example

\* the example has been read and its tree returned
C4_Witness ==
    /\ pc = "returned"
    /\ stream = <<BeginA, BeginB, EndB, EndA>>
    /\ Len(docs) = 1
    /\ Len(docs[1].children) = 1

---------------------------------------------------------------------------
(* C5 *)

\* C5: a line starting with space or tab after a pending property line is a
\* continuation: its first character is removed and the rest appended; the
\* logical line the property is built from is the first physical line followed
\* by all continuation remainders in order, each stripped of \r \n \v \f.
C5_Unfolding ==
    (pc = "reading" /\ ~atEof) =>
        IF Ref.pending = <<>> THEN saved = <<>> \/ saved[1] = NUL
        ELSE CStr(saved, 1) = Ref.pending
---------------------------------------------------------------------------
(* C11 *)

\* the segments put together again: the first as it is, every later one
\* without its first byte
RECURSIVE Unfolded(_, _)
Unfolded(segs, i) ==
    IF i > Len(segs) THEN <<>>
    ELSE (IF i = 1 THEN segs[1] ELSE Tail(segs[i])) \o Unfolded(segs, i + 1)

\* the document vobject_next builds from written physical lines
ParsedView(lines, g) ==
    LET S == ParseText(NewCall(EmptyHeap, 0), lines, 1, g)
    IN IF S.status = "returned" /\ S.vc # 0 THEN TreeView(S.H, S.vc)
       ELSE [type |-> <<>>, props |-> <<>>, children |-> <<>>]

\* every continuation physical line starts with one space, and the segments
\* without those spaces, in order, are the unfolded line byte for byte
C11_SegmentsConcatenate ==
    (pc = "written" /\ ~HasFlag(arg.flags, VOF_NOBREAK)) =>
        /\ \A i \in 2..Len(WrittenSegments) : WrittenSegments[i][1] = " "
        /\ Unfolded(WrittenSegments, 1) = WrittenLine

\* parsing the folded output gives the property that parsing the unfolded
\* output gives
C11_SameProperty ==
    (pc = "written" /\ ~HasFlag(arg.flags, VOF_NOBREAK)) =>
        \A g \in Indeterminate, ub \in NullOutcomes :
            ParsedView(res.lines, g)
              = ParsedView(vobject_write2(heap, 1, arg.flags + VOF_NOBREAK, ub).lines, g)

\* C11: for every property line written folded by vobject_write2, removing
\* the single leading space of each continuation line and concatenating the
\* segments in order gives back the unfolded line byte for byte, and parsing
\* the folded output with vobject_next yields the same property as parsing
\* the unfolded output.
C11_FoldUnfoldInverse == C11_SegmentsConcatenate /\ C11_SameProperty
---------------------------------------------------------------------------
(* The hierarchy, duplication and free calls of the library applied in any   *)
(* order to documents made by the parser (as votool.c and icalsplit.c use    *)
(* them on the trees vobject_next returned)                                  *)

MaxNodes == 6
MaxTreeOps == 3

\* x is o or lies below o, following the parent links at most n times
RECURSIVE IsUnder(_, _, _, _)
IsUnder(H, x, o, n) ==
    \/ x = o
    \/ n > 0 /\ H.vo[x].parent # 0 /\ IsUnder(H, H.vo[x].parent, o, n - 1)

\* the documents of the tree under o, o included
NodesUnder(H, o) == {x \in 1..Len(H.vo) : IsUnder(H, x, o, Len(H.vo))}

\* the document a property or metadata entry hangs on (0 when detached)
RECURSIVE OwnerOf(_, _, _)
OwnerOf(H, p, n) ==
    IF H.vp[p].up < 0 THEN -H.vp[p].up
    ELSE IF H.vp[p].up = 0 \/ n = 0 THEN 0
    ELSE OwnerOf(H, H.vp[p].up, n - 1)

\* the properties and metadata entries of document o
VpropsOf(H, o) == {p \in 1..Len(H.vp) : OwnerOf(H, p, Len(H.vp)) = o}

\* the tree vobject_next builds from
\*   BEGIN:A / N;T=W:x / BEGIN:B / K:1 / END:B / BEGIN:C / END:C / END:A
TreeHeap ==
    LET C(H) == NewChild(H, <<"C">>, 1).H
        K(r) == AppendProperty(r.H, r.id, <<"K", ":", "1">>, <<>>)
        B(H) == NewChild(H, <<"B">>, 1)
        N(r) == AppendProperty(r.H, r.id, <<"N", ";", "T", "=", "W", ":", "x">>, <<>>)
    IN C(K(B(N(NewChild(EmptyHeap, <<"A">>, 0)))))

InitTree ==
    /\ heap = TreeHeap
    /\ vc = 0 /\ saved = <<>> /\ savedlen = 0 /\ savedsize = 0 /\ linenr = 0
    /\ stream = <<>> /\ callstart = 0 /\ atEof = FALSE /\ docs = <<>>
    /\ pc = "tree"
    /\ arg = [op |-> "none", x |-> 0, parent |-> 0, n |-> 0]
    /\ res = [id |-> 0]

LiveDocs == {o \in 1..Len(heap.vo) : heap.vo[o].live}

treeFrame == <<vc, saved, savedlen, savedsize, linenr, stream, callstart,
               atEof, docs, pc>>

\* vobject_attach(obj, parent), parent not obj nor below obj
TreeAttach ==
    /\ pc = "tree" /\ arg.n < MaxTreeOps
    /\ \E o \in LiveDocs, p \in LiveDocs :
         /\ p \notin NodesUnder(heap, o)
         /\ heap' = vobject_attach(heap, o, p)
         /\ arg' = [op |-> "attach", x |-> o, parent |-> p, n |-> arg.n + 1]
         /\ res' = [id |-> 0]
    /\ UNCHANGED treeFrame

\* vobject_detach(vo)
TreeDetach ==
    /\ pc = "tree" /\ arg.n < MaxTreeOps
    /\ \E o \in LiveDocs :
         /\ heap' = vobject_detach(heap, o)
         /\ arg' = [op |-> "detach", x |-> o, parent |-> 0, n |-> arg.n + 1]
         /\ res' = [id |-> 0]
    /\ UNCHANGED treeFrame

\* d = vobject_dup(src)
TreeDup ==
    /\ pc = "tree" /\ arg.n < MaxTreeOps
    /\ \E o \in LiveDocs :
         /\ Len(heap.vo) + Cardinality(NodesUnder(heap, o)) <= MaxNodes
         /\ \E r \in {vobject_dup(heap, o)} :
              /\ heap' = r.H
              /\ res' = [id |-> r.id]
         /\ arg' = [op |-> "dup", x |-> o, parent |-> 0, n |-> arg.n + 1]
    /\ UNCHANGED treeFrame

\* d = vobject_dup_root(src)
TreeDupRoot ==
    /\ pc = "tree" /\ arg.n < MaxTreeOps
    /\ \E o \in LiveDocs :
         /\ Len(heap.vo) + 1 <= MaxNodes
         /\ \E r \in {vobject_dup_root(heap, o)} :
              /\ heap' = r.H
              /\ res' = [id |-> r.id]
         /\ arg' = [op |-> "dup_root", x |-> o, parent |-> 0, n |-> arg.n + 1]
    /\ UNCHANGED treeFrame

\* vprop_remove(prop) on a property or a metadata entry of a document
TreeRemoveProp ==
    /\ pc = "tree" /\ arg.n < MaxTreeOps
    /\ \E o \in LiveDocs : \E p \in VpropsOf(heap, o) :
         /\ heap' = vprop_remove(heap, p)
         /\ arg' = [op |-> "remove", x |-> o, parent |-> 0, n |-> arg.n + 1]
         /\ res' = [id |-> p]
    /\ UNCHANGED treeFrame

\* vobject_free(vc)
TreeFree ==
    /\ pc = "tree" /\ arg.n < MaxTreeOps
    /\ \E o \in LiveDocs :
         /\ heap' = vobject_free(heap, o)
         /\ arg' = [op |-> "free", x |-> o, parent |-> 0, n |-> arg.n + 1]
         /\ res' = [id |-> 0]
    /\ UNCHANGED treeFrame

NextTree ==
    \/ TreeAttach \/ TreeDetach \/ TreeDup \/ TreeDupRoot \/ TreeRemoveProp
    \/ TreeFree

SpecTree == InitTree /\ [][NextTree]_vars
---------------------------------------------------------------------------
(* C12 *)

---------------------------------------------------------------------------
(* C13 *)

\* everything a reader can see of one document, and whether it is allocated
DocLook(H, o) ==
    [type |-> H.vo[o].type, live |-> H.vo[o].live, props |-> PropViews(H, o),
     children |-> ChildIds(H, o), parent |-> H.vo[o].parent]

\* the roots of the trees the call of this step was given a document of
TouchedRoots ==
    IF arg'.op \in {"dup", "dup_root"} THEN {}
    ELSE {RootOf(heap, arg'.x, Len(heap.vo))}
         \cup (IF arg'.op = "attach"
               THEN {RootOf(heap, arg'.parent, Len(heap.vo))} ELSE {})

\* a call changes no document of a tree it was given no document of; a
\* duplicate is a tree of its own made of new blocks only, and making it
\* changes no document that existed
C13_Step ==
    /\ \A o \in 1..Len(heap.vo) :
          RootOf(heap, o, Len(heap.vo)) \notin TouchedRoots
             => DocLook(heap', o) = DocLook(heap, o)
    /\ arg'.op \in {"dup", "dup_root"} =>
          /\ res'.id > Len(heap.vo)
          /\ heap'.vo[res'.id].parent = 0
          /\ NodesUnder(heap', res'.id) \subseteq (Len(heap.vo) + 1)..Len(heap'.vo)
          /\ \A d \in NodesUnder(heap', res'.id) :
                VpropsOf(heap', d) \subseteq (Len(heap.vp) + 1)..Len(heap'.vp)

\* C13: after d = vobject_dup(s) or vobject_dup_root(s) no attach, detach,
\* property removal or free applied to d's tree changes the type, properties,
\* metadata, children or parent link of any document of s's tree, nor the
\* other way round, and making the duplicate leaves s and its parent's child
\* list unchanged.
C13_Independence == [][C13_Step]_vars

\* a document of a duplicate was freed and the parsed tree is as it was
C13_Witness ==
    /\ pc = "tree" /\ arg.op = "free" /\ arg.x > Len(TreeHeap.vo)
    /\ TreeView(heap, 1) = TreeView(TreeHeap, 1)
    /\ \A o \in 1..Len(TreeHeap.vo) : DocLook(heap, o) = DocLook(TreeHeap, o)

---------------------------------------------------------------------------
(* C14 *)

\* the child list of o is one finite chain first..last whose members are
\* allocated, distinct and have o as parent
ChainOk(H, o) ==
    LET kids == ChildIds(H, o)
        n == Len(kids)
    IN /\ \A i, j \in 1..n : i # j => kids[i] # kids[j]
       /\ (n = 0) <=> (H.vo[o].list = 0)
       /\ (n = 0) <=> (H.vo[o].listlast = 0)
       /\ n > 0 => /\ H.vo[kids[1]].prev = 0
                   /\ H.vo[kids[n]].next = 0
                   /\ H.vo[o].listlast = kids[n]
       /\ \A i \in 1..(n - 1) : H.vo[kids[i + 1]].prev = kids[i]
       /\ \A i \in 1..n : H.vo[kids[i]].parent = o /\ H.vo[kids[i]].live

\* how often o stands in the child list of p
TimesChildOf(H, o, p) ==
    Cardinality({i \in 1..Len(ChildIds(H, p)) : ChildIds(H, p)[i] = o})

\* C14: after any sequence of vobject_next, vobject_attach, vobject_detach,
\* vobject_dup and vobject_free calls (attach never given a parent that is the
\* document itself or below it) every document with a parent stands exactly
\* once in that parent's child list and in no other, every document of a
\* child list has the list's owner as parent, and the links of every child
\* list describe one finite chain.
C14_TreeInvariant ==
    pc = "tree" =>
      \A o \in LiveDocs :
        /\ ChainOk(heap, o)
        /\ heap.vo[o].parent # 0 =>
              /\ heap.vo[heap.vo[o].parent].live
              /\ TimesChildOf(heap, o, heap.vo[o].parent) = 1
        /\ heap.vo[o].parent = 0 => heap.vo[o].next = 0 /\ heap.vo[o].prev = 0
        /\ \A p \in LiveDocs :
              p # heap.vo[o].parent => TimesChildOf(heap, o, p) = 0

\* a document was moved from one parent to another, the old parent keeping a
\* child, after a duplicate was made and a document freed
C14_Witness ==
    /\ pc = "tree" /\ arg.op = "attach" /\ arg.n = MaxTreeOps
    /\ Len(ChildIds(heap, arg.parent)) >= 2
    /\ \E o \in 1..Len(heap.vo) : ~heap.vo[o].live
    /\ Len(heap.vo) > Len(TreeHeap.vo)

---------------------------------------------------------------------------
(* C15 *)

\* the sequence without the document x
Without(seq, x) == SelectSeq(seq, LAMBDA y : y # x)

C15_Step ==
    /\ arg'.op = "attach" =>
          LET o == arg'.x
              p == arg'.parent
              old == heap.vo[o].parent
          IN /\ ChildIds(heap', p) = Append(Without(ChildIds(heap, p), o), o)
             /\ heap'.vo[o].parent = p
             /\ (old # 0 /\ old # p) =>
                   ChildIds(heap', old) = Without(ChildIds(heap, old), o)
             /\ ChildIds(heap', o) = ChildIds(heap, o)
    /\ arg'.op = "detach" =>
          LET o == arg'.x
              old == heap.vo[o].parent
          IN /\ old = 0 => heap' = heap
             /\ old # 0 =>
                   /\ ChildIds(heap', old) = Without(ChildIds(heap, old), o)
                   /\ heap'.vo[o].parent = 0
                   /\ heap'.vo[o].next = 0 /\ heap'.vo[o].prev = 0
                   /\ ChildIds(heap', o) = ChildIds(heap, o)

\* C15: vobject_attach(obj, parent) first removes obj from the child list of
\* its current parent, if any, and then makes obj the last child of parent;
\* the other children of the old and the new parent keep their order, also
\* when both are the same document.  vobject_detach(obj) changes nothing on a
\* document without parent; on a child it removes obj, clears obj's parent
\* and sibling links and keeps the order of the remaining siblings.
C15_AttachDetach == [][C15_Step]_vars

\* the first child B of A was attached to A again and is now its last child
C15_Witness ==
    /\ pc = "tree" /\ arg.op = "attach" /\ arg.n = 1
    /\ arg.x = 2 /\ arg.parent = 1
    /\ ChildIds(heap, 1) = <<3, 2>>

---------------------------------------------------------------------------
(* C16 *)

\* the place of a block in a list of freed blocks (0 when it is not there)
FreedAt(log, b) ==
    IF \E i \in 1..Len(log) : log[i] = b
    THEN CHOOSE i \in 1..Len(log) : log[i] = b
    ELSE 0

\* no allocated document or property points at a block that was freed
NoDanglingLinks(H) ==
    /\ \A o \in 1..Len(H.vo) : H.vo[o].live =>
          /\ \A l \in {H.vo[o].parent, H.vo[o].list, H.vo[o].listlast,
                       H.vo[o].next, H.vo[o].prev} : l # 0 => H.vo[l].live
          /\ \A l \in {H.vo[o].props, H.vo[o].proplast} : l # 0 => H.vp[l].live
    /\ \A p \in 1..Len(H.vp) : H.vp[p].live =>
          /\ \A l \in {H.vp[p].next, H.vp[p].prev, H.vp[p].sub, H.vp[p].lastsub} :
                l # 0 => H.vp[l].live
          /\ H.vp[p].up > 0 => H.vp[H.vp[p].up].live
          /\ H.vp[p].up < 0 => H.vo[-H.vp[p].up].live

C16_Step ==
    arg'.op = "free" =>
      LET o == arg'.x
          N == NodesUnder(heap, o)
          P == UNION {VpropsOf(heap, d) : d \in N}
          old == heap.vo[o].parent
          log == SubSeq(heap'.freed, Len(heap.freed) + 1, Len(heap'.freed))
      IN /\ \A d \in N : ~heap'.vo[d].live
         /\ \A p \in P : ~heap'.vp[p].live
         /\ {log[i] : i \in 1..Len(log)}
               = {<<"vo", d>> : d \in N} \cup {<<"vp", p>> : p \in P}
         /\ Len(log) = Cardinality(N) + Cardinality(P)
         /\ log[Len(log)] = <<"vo", o>>
         /\ \A d \in N :
               /\ \A e \in NodesUnder(heap, d) :
                     FreedAt(log, <<"vo", e>>) <= FreedAt(log, <<"vo", d>>)
               /\ \A p \in VpropsOf(heap, d) :
                     FreedAt(log, <<"vp", p>>) < FreedAt(log, <<"vo", d>>)
         /\ old # 0 => ChildIds(heap', old) = Without(ChildIds(heap, old), o)
         /\ \A d \in (1..Len(heap.vo)) \ N : heap'.vo[d].live = heap.vo[d].live
         /\ NoDanglingLinks(heap')

\* C16: vobject_free(doc) ends for every finite tree, releases every property
\* of doc (with its metadata entries) and every descendant document before doc
\* itself, each exactly once, and removes doc from its parent's child list so
\* that the remaining children keep their order and no list still references
\* a freed document.
C16_Free == [][C16_Step]_vars

\* the parsed root A was freed as the first call: three documents, two
\* properties and a metadata entry are released
C16_Witness ==
    /\ pc = "tree" /\ arg.op = "free" /\ arg.x = 1 /\ arg.n = 1
    /\ Len(heap.freed) = 6
    /\ \A o \in 1..3 : ~heap.vo[o].live
---------------------------------------------------------------------------
(* votool.c, SPLIT: copy_timezones *)

VTIMEZONE == <<"V", "T", "I", "M", "E", "Z", "O", "N", "E">>
VCALENDAR == <<"V", "C", "A", "L", "E", "N", "D", "A", "R">>
VCARD == <<"V", "C", "A", "R", "D">>
tzid == <<"t", "z", "i", "d">>

\* s ?: ""
OrEmpty(s) == IF s = NullStr THEN <<>> ELSE s

\* the two for loops over tz: the first document from tz on, along the sibling
\* links, that is a VTIMEZONE whose tzid property (or "") equals tzstr
RECURSIVE find_timezone(_, _, _, _)
find_timezone(H, tz, tzstr, n) ==
    IF tz = 0 \/ n = 0 THEN 0
    ELSE IF /\ strcasecmp0(VTIMEZONE, H.vo[tz].type)
            /\ OrEmpty(vobject_prop(H, tz, tzid)) = tzstr
         THEN tz
    ELSE find_timezone(H, vobject_next_child(H, tz), tzstr, n - 1)

\* the loop over the properties of dut, from prop on; missing collects the
\* "Timezone '%s' not found" reports
RECURSIVE copy_timezones_from(_, _, _, _, _)
copy_timezones_from(H, prop, root, origroot, missing) ==
    LET tzstr == vprop_meta(H, prop, tzid)
        attach(copy) == vobject_attach(copy.H, copy.id, root)
        rest(G, m) == copy_timezones_from(G, G.vp[prop].next, root, origroot, m)
        append(tz) == IF tz # 0 THEN rest(attach(vobject_dup(H, tz)), missing)
                      ELSE rest(H, Append(missing, tzstr))
        look(here) ==
            IF here # 0 THEN rest(H, missing)
            ELSE append(find_timezone(H, vobject_first_child(H, origroot), tzstr,
                                      Len(H.vo)))
    IN IF prop = 0 THEN [H |-> H, missing |-> missing]
       ELSE IF tzstr = NullStr THEN rest(H, missing)
       ELSE look(find_timezone(H, vobject_first_child(H, root), tzstr, Len(H.vo)))

copy_timezones(H, dut, root, origroot) ==
    copy_timezones_from(H, H.vo[dut].props, root, origroot, <<>>)

---------------------------------------------------------------------------
(* copy_timezones applied to small calendars *)

MaxTzChildren == 2
MaxDutProps == 2

\* the children a calendar may hold: type and property lines
TzKinds ==
    { [type |-> VTIMEZONE, lines |-> << <<"T", "Z", "I", "D", ":", "X">> >>],
      [type |-> <<"v", "t", "i", "m", "e", "z", "o", "n", "e">>,
       lines |-> << <<"t", "z", "i", "d", ":", "Y">> >>],
      [type |-> VTIMEZONE,
       lines |-> << <<"T", "Z", "I", "D", ":", "X">>, <<"K", ":", "2">> >>],
      [type |-> VTIMEZONE, lines |-> << <<"K", ":", "3">> >>],
      [type |-> <<"V", "E", "V", "E", "N", "T">>,
       lines |-> << <<"T", "Z", "I", "D", ":", "X">> >>] }

\* the property lines the document looked at may hold
DutLines ==
    { <<"D", ";", "T", "Z", "I", "D", "=", "X", ":", "1">>,
      <<"E", ";", "V", "=", "1", ";", "t", "z", "i", "d", "=", "Y", ":", "2">>,
      <<"F", ";", "T", "Z", "I", "D", "=", "Z", ":", "3">>,
      <<"G", ";", "T", "Z", "I", "D", ":", "4">>,
      <<"H", ";", "T", "Z", "I", "D", "=", "\"", "\"", ":", "6">>,
      <<"S", ":", "5">> }

\* the properties lines[i..] appended to document o as vobject_next does, one
\* line after the other
RECURSIVE AppendLines(_, _, _, _)
AppendLines(H, o, lines, i) ==
    IF i > Len(lines) THEN H
    ELSE CHOOSE R \in {AppendLines(G, o, lines, i + 1) :
                          G \in {AppendProperty(H, o, lines[i], <<>>)}} : TRUE

\* the documents kinds[i..] made children of parent as vobject_next does
RECURSIVE AppendKinds(_, _, _, _)
AppendKinds(H, parent, kinds, i) ==
    LET lines(c) == AppendLines(c.H, c.id, kinds[i].lines, 1)
    IN IF i > Len(kinds) THEN H
       ELSE CHOOSE R \in {AppendKinds(G, parent, kinds, i + 1) :
                             G \in {lines(NewChild(H, kinds[i].type, parent))}} : TRUE

SeqsUpTo(S, n) == UNION {[1..k -> S] : k \in 0..n}

TzOrigRoot == 1
TzRoot == 2
TzDut == 3

\* origroot (document 1) with children orig, the new root (document 2) with
\* children have, and the document looked at (document 3) with properties dut
TzHeap(orig, have, dut) ==
    LET fill(H) == AppendLines(AppendKinds(AppendKinds(H, TzOrigRoot, orig, 1),
                                           TzRoot, have, 1),
                               TzDut, dut, 1)
        r3(H) == NewChild(H, <<"V", "E", "V", "E", "N", "T">>, 0).H
        r2(H) == NewChild(H, VCALENDAR, 0).H
    IN fill(r3(r2(NewChild(EmptyHeap, VCALENDAR, 0).H)))

InitTz ==
    /\ vc = 0 /\ saved = <<>> /\ savedlen = 0 /\ savedsize = 0 /\ linenr = 0
    /\ stream = <<>> /\ callstart = 0 /\ atEof = FALSE /\ docs = <<>>
    /\ pc = "tz_call"
    /\ \E orig \in SeqsUpTo(TzKinds, MaxTzChildren),
          have \in SeqsUpTo(TzKinds, 1),
          dut \in SeqsUpTo(DutLines, MaxDutProps) :
         /\ heap = TzHeap(orig, have, dut)
         /\ arg = [orig |-> orig, have |-> have, dut |-> dut]
    /\ res = [missing |-> <<>>]

TzCopy ==
    /\ pc = "tz_call"
    /\ \E r \in {copy_timezones(heap, TzDut, TzRoot, TzOrigRoot)} :
         /\ heap' = r.H
         /\ res' = [missing |-> r.missing]
    /\ pc' = "tz_done"
    /\ UNCHANGED <<vc, saved, savedlen, savedsize, linenr, stream, callstart,
                   atEof, docs, arg>>

NextTz == TzCopy

SpecTz == InitTz /\ [][NextTz]_vars
---------------------------------------------------------------------------
(* C17 *)

\* the heap copy_timezones was started on
TzStart == TzHeap(arg.orig, arg.have, arg.dut)

\* the VTIMEZONE children of document r, in child order
TzChildren(H, r) ==
    SelectSeq(ChildIds(H, r), LAMBDA c : strcasecmp0(VTIMEZONE, H.vo[c].type))

\* the TZID property of a VTIMEZONE (NullStr when it has none)
TzidProp(H, tz) == vobject_prop(H, tz, tzid)

\* the TZID metadata values carried by the direct properties of dut
TzidRefs(H, dut) ==
    {vprop_meta(H, PropIds(H, dut)[i], tzid) : i \in 1..Len(PropIds(H, dut))}
        \ {NullStr}

\* no two VTIMEZONE children of r have the same TZID property
NoTwoSameTzid(H, r) ==
    \A i, j \in 1..Len(TzChildren(H, r)) :
        (i # j /\ TzidProp(H, TzChildren(H, r)[i]) # NullStr)
           => TzidProp(H, TzChildren(H, r)[i]) # TzidProp(H, TzChildren(H, r)[j])

\* document r has a VTIMEZONE child whose TZID property is v
HasTzid(H, r, v) ==
    \E i \in 1..Len(TzChildren(H, r)) : TzidProp(H, TzChildren(H, r)[i]) = v

\* C17: copy_timezones(dut, root, origroot), started with a root that holds no
\* two VTIMEZONE children with the same TZID, ends with a root that holds no
\* two VTIMEZONE children with the same TZID property and that holds a
\* VTIMEZONE copy for every TZID metadata value carried by a direct property
\* of dut for which origroot has a VTIMEZONE child with that TZID; a referenced
\* TZID missing from origroot is only reported and adds nothing; origroot's
\* children are unchanged.
C17_TimezoneCopy ==
    (pc = "tz_done" /\ NoTwoSameTzid(TzStart, TzRoot)) =>
        /\ NoTwoSameTzid(heap, TzRoot)
        /\ \A v \in TzidRefs(TzStart, TzDut) :
              HasTzid(TzStart, TzOrigRoot, v) => HasTzid(heap, TzRoot, v)
        /\ (\A v \in TzidRefs(TzStart, TzDut) : ~HasTzid(TzStart, TzOrigRoot, v))
              => /\ ChildIds(heap, TzRoot) = ChildIds(TzStart, TzRoot)
                 /\ \A v \in TzidRefs(TzStart, TzDut) :
                       HasTzid(TzStart, TzRoot, v)
                          \/ \E k \in 1..Len(res.missing) : res.missing[k] = v
        /\ TreeView(heap, TzOrigRoot) = TreeView(TzStart, TzOrigRoot)
---------------------------------------------------------------------------
(* votool.c: vobject_fix, myvobject_write and icalsplit *)

\* enum: the bit numbers of the static int flags
OPT_FIX == 2

\* the loop over the properties of a VCARD, from propn on; Nvalue is the value
\* of the first N seen so far (NullStr while there is none). strcmp(str, Nvalue)
\* with str NULL is undefined: ub says whether the call dies on it.
RECURSIVE vobject_fix_props(_, _, _, _)
vobject_fix_props(H, propn, Nvalue, ub) ==
    IF propn = 0 THEN [H |-> H, crashed |-> FALSE]
    ELSE
    LET next == H.vp[propn].next
        str == H.vp[propn].value
    IN IF ~strcasecmp0(H.vp[propn].key, <<"N">>)
       THEN vobject_fix_props(H, next, Nvalue, ub)
       ELSE IF Nvalue = NullStr
       THEN vobject_fix_props(H, next, str, ub)
       ELSE IF str = NullStr /\ ub = "crash"
       THEN [H |-> H, crashed |-> TRUE]
       ELSE vobject_fix_props(vprop_remove(H, propn), next, Nvalue, ub)

\* fix some vobject problems: a VCALENDAR hands every child to vobject_fix, a
\* VCARD keeps its first N and loses the later ones
RECURSIVE vobject_fix(_, _, _)
RECURSIVE vobject_fix_children(_, _, _)
vobject_fix_children(H, vo, ub) ==
    LET rest(r) == IF r.crashed THEN r
                   ELSE vobject_fix_children(r.H, vobject_next_child(r.H, vo), ub)
    IN IF vo = 0 THEN [H |-> H, crashed |-> FALSE]
       ELSE rest(vobject_fix(H, vo, ub))

vobject_fix(H, vo, ub) ==
    IF strcasecmp0(H.vo[vo].type, VCALENDAR)
    THEN vobject_fix_children(H, vobject_first_child(H, vo), ub)
    ELSE IF strcasecmp0(H.vo[vo].type, VCARD)
    THEN vobject_fix_props(H, H.vo[vo].props, NullStr, ub)
    ELSE [H |-> H, crashed |-> FALSE]

\* myvobject_write: the document goes to stdout or to a fresh file, through
\* vobject_write2 with the program's flags (the writer looks at bits 0 and 1)
myvobject_write(H, vo, flags, ub) == vobject_write2(H, vo, flags % 4, ub)

\* one turn of the for loop of icalsplit on the child sub of root: a VTIMEZONE
\* is skipped, any other child is written in a duplicate of root that holds
\* the timezones it refers to and a duplicate of the child
icalsplit_sub(H, root, sub, flags, ub) ==
    LET write(G, newroot, W) ==
            IF W.crashed
            THEN [H |-> G, written |-> <<>>, crashed |-> TRUE]
            ELSE [H |-> vobject_free(G, newroot),
                  written |-> <<[tree |-> TreeView(G, newroot), lines |-> W.lines]>>,
                  crashed |-> FALSE]
        attached(G, newroot) == write(G, newroot, myvobject_write(G, newroot, flags, ub))
        copied(T, newsub, newroot) ==
            attached(vobject_attach(T.H, newsub, newroot), newroot)
        dupsub(newsub, newroot) ==
            copied(copy_timezones(newsub.H, newsub.id, newroot, root),
                   newsub.id, newroot)
        duproot(newroot) == dupsub(vobject_dup(newroot.H, sub), newroot.id)
    IN IF strcasecmp0(H.vo[sub].type, VTIMEZONE)
       THEN [H |-> H, written |-> <<>>, crashed |-> FALSE]
       ELSE duproot(vobject_dup_root(H, root))

---------------------------------------------------------------------------
(* icalsplit applied to one parsed root *)

MaxSplitChildren == 3

\* the children a root may hold: type and property lines
SplitKinds ==
    { [type |-> VTIMEZONE, lines |-> << <<"T", "Z", "I", "D", ":", "X">> >>],
      [type |-> <<"v", "t", "i", "m", "e", "z", "o", "n", "e">>,
       lines |-> << <<"t", "z", "i", "d", ":", "Y">> >>],
      [type |-> <<"V", "E", "V", "E", "N", "T">>,
       lines |-> << <<"D", ";", "T", "Z", "I", "D", "=", "X", ":", "1">> >>],
      [type |-> <<"v", "t", "o", "d", "o">>,
       lines |-> << <<"E", ";", "V", "=", "1", ";", "t", "z", "i", "d", "=", "Y", ":", "2">>,
                    <<"F", ";", "T", "Z", "I", "D", "=", "Z", ":", "3">> >>],
      [type |-> <<"V", "E", "V", "E", "N", "T">>, lines |-> << <<"S", ":", "5">> >>],
      [type |-> <<"V", "E", "V", "E", "N", "T">>,
       lines |-> << <<"G", ";", "T", "Z", "I", "D", ":", "4">> >>],
      [type |-> VCARD,
       lines |-> << <<"N", ":", "a">>, <<"F", "N", ":", "c">>, <<"n", ":", "b">> >>] }

\* the roots: calendars with up to MaxSplitChildren children, and cards
SplitRoots ==
    {[type |-> t, lines |-> << <<"V", ":", "2">> >>, kids |-> k] :
        t \in {VCALENDAR, <<"v", "C", "a", "l", "e", "n", "d", "a", "r">>},
        k \in SeqsUpTo(SplitKinds, MaxSplitChildren)}
    \cup
    {[type |-> VCARD, lines |-> l, kids |-> <<>>] :
        l \in { << <<"N", ":", "a">>, <<"N", ":", "a">>, <<"N", ":", "b">> >>,
                << <<"N">>, <<"N", ":", "a">>, <<"N", ":", "b">> >>,
                << <<"N", ":", "a">>, <<"N">> >>,
                << <<"T", ";", "W", ":", "1">> >> }}

\* the flags the program may run with: OPT_FIX clear or set
SplitFlags == {0, 2 ^ OPT_FIX}

\* the root as vobject_next returns it: document 1
SplitHeap(r) ==
    LET fill(root) == AppendKinds(AppendLines(root.H, root.id, r.lines, 1),
                                  root.id, r.kids, 1)
    IN fill(NewChild(EmptyHeap, r.type, 0))

InitSplit ==
    /\ vc = 0 /\ saved = <<>> /\ savedlen = 0 /\ savedsize = 0 /\ linenr = 0
    /\ stream = <<>> /\ callstart = 0 /\ atEof = FALSE /\ docs = <<>>
    /\ pc = "split_call"
    /\ \E r \in SplitRoots, f \in SplitFlags :
         /\ heap = SplitHeap(r)
         /\ arg = [root |-> r, flags |-> f]
    /\ res = [root |-> 1, sub |-> 0, before |-> <<>>]

splitFrame ==
    UNCHANGED <<vc, saved, savedlen, savedsize, linenr, stream, callstart,
                atEof, arg>>

\* lines 272-280: root is back from vobject_next; vobject_fix when asked for,
\* then a root that is no VCALENDAR is written, a VCALENDAR enters the loop.
\* docs takes what myvobject_write has written; res.before takes what root
\* looks like when the writing starts.
SplitBegin ==
    /\ pc = "split_call"
    /\ \E ub \in NullOutcomes :
       \E F \in {IF HasFlag(arg.flags, 2 ^ OPT_FIX)
                 THEN vobject_fix(heap, res.root, ub)
                 ELSE [H |-> heap, crashed |-> FALSE]} :
       \E W \in {myvobject_write(F.H, res.root, arg.flags, ub)} :
         /\ heap' = F.H
         /\ IF F.crashed
            THEN pc' = "crashed" /\ UNCHANGED <<docs, res>>
            ELSE IF ~strcasecmp0(heap'.vo[res.root].type, VCALENDAR)
            THEN /\ res' = [res EXCEPT !.before = <<TreeView(F.H, res.root)>>]
                 /\ IF W.crashed
                    THEN pc' = "crashed" /\ UNCHANGED docs
                    ELSE /\ docs' = Append(docs, [tree |-> TreeView(F.H, res.root),
                                                  lines |-> W.lines])
                         /\ pc' = "split_free"
            ELSE /\ res' = [res EXCEPT !.before = <<TreeView(F.H, res.root)>>,
                                       !.sub = vobject_first_child(F.H, res.root)]
                 /\ pc' = IF vobject_first_child(F.H, res.root) = 0
                          THEN "split_free" ELSE "split_loop"
                 /\ UNCHANGED docs
    /\ splitFrame

\* lines 281-292: one turn of the loop over the children of root
SplitChild ==
    /\ pc = "split_loop"
    /\ \E ub \in NullOutcomes :
       \E R \in {icalsplit_sub(heap, res.root, res.sub, arg.flags, ub)} :
         /\ heap' = R.H
         /\ IF R.crashed
            THEN pc' = "crashed" /\ UNCHANGED <<docs, res>>
            ELSE /\ docs' = docs \o R.written
                 /\ res' = [res EXCEPT !.sub = vobject_next_child(R.H, res.sub)]
                 /\ pc' = IF vobject_next_child(R.H, res.sub) = 0
                          THEN "split_free" ELSE "split_loop"
    /\ splitFrame

\* line 293: vobject_free(root); the next vobject_next finds the end of file
SplitFree ==
    /\ pc = "split_free"
    /\ heap' = vobject_free(heap, res.root)
    /\ pc' = "split_done"
    /\ UNCHANGED <<docs, res>>
    /\ splitFrame

NextSplit == SplitBegin \/ SplitChild \/ SplitFree

SpecSplit == InitSplit /\ [][NextSplit]_vars
---------------------------------------------------------------------------
(* C18 *)

IsTimezone(T) == strcasecmp0(T.type, VTIMEZONE)

\* the children of the document view B that are no VTIMEZONE, in child order
SplitSubs(B) == SelectSeq(B.children, LAMBDA T : ~IsTimezone(T))

\* icalsplit has stopped working on the root: it went through all children,
\* or the process died
SplitStopped == pc \in {"split_free", "split_done", "crashed"}

\* document view D is root view B cut down to its k-th non-VTIMEZONE child:
\* type and properties of B, then copies of VTIMEZONE children of B, then a
\* copy of that child
SplitDocOf(D, B, k) ==
    /\ D.type = B.type
    /\ D.props = B.props
    /\ Len(D.children) >= 1
    /\ D.children[Len(D.children)] = SplitSubs(B)[k]
    /\ \A i \in 1..(Len(D.children) - 1) :
          /\ IsTimezone(D.children[i])
          /\ \E j \in 1..Len(B.children) : B.children[j] = D.children[i]

\* what C18 says of a root whose view was B when the writing started
SplitWritten(B) ==
    IF strcasecmp0(B.type, VCALENDAR)
    THEN /\ Len(docs) = Len(SplitSubs(B))
         /\ \A k \in 1..Len(docs) : SplitDocOf(docs[k].tree, B, k)
    ELSE /\ Len(docs) = 1
         /\ docs[1].tree = B

\* C18: for a parsed root of type VCALENDAR (any case) icalsplit writes
\* exactly one document per child whose type is not VTIMEZONE, in child order;
\* each written document has the root's type and properties and, as children,
\* the copied timezones followed by a copy of that one child; a root of any
\* other type is written once as it is; the parsed root has the same
\* properties and children after all writes as before.
C18_Split ==
    /\ (SplitStopped /\ ~HasFlag(arg.flags, 2 ^ OPT_FIX))
          => SplitWritten(TreeView(SplitHeap(arg.root), 1))
    /\ (SplitStopped /\ HasFlag(arg.flags, 2 ^ OPT_FIX))
          => (res.before # <<>> /\ SplitWritten(res.before[1]))
    /\ (pc \in {"split_loop", "split_free"})
          => res.before = <<TreeView(heap, res.root)>>

\* the same for the roots in which every metadata entry and every property
\* has a value
AllValued(T) ==
    /\ \A i \in 1..Len(T.props) :
          /\ T.props[i].value # NullStr
          /\ \A j \in 1..Len(T.props[i].meta) : T.props[i].meta[j].value # NullStr
    /\ \A i \in 1..Len(T.children) :
          \A q \in 1..Len(T.children[i].props) :
             /\ T.children[i].props[q].value # NullStr
             /\ \A j \in 1..Len(T.children[i].props[q].meta) :
                   T.children[i].props[q].meta[j].value # NullStr

SplitValuedRoots ==
    AllValued(TreeView(SplitHeap(arg.root), 1)) => (pc # "crashed" /\ C18_Split)
---------------------------------------------------------------------------
(* C19 *)

\* the type named by an END line
EndType(t) == SubSeq(t, 5, Len(t))

\* the logical line pending in saved (empty when there is none)
Pending == IF saved = <<>> THEN <<>> ELSE CStr(saved, 1)

\* a step of the read-write loop in which vobject_next takes one more line
ReadsLine == pc = "reading" /\ Len(stream') = Len(stream) + 1

\* the line is an END whose type is not that of the open document vc: vc, its
\* depth, its children and the documents handed out stay, the call reads on
\* and the line is the pending logical line
UnmatchedEndKeepsOpen ==
    LET t == LineText(stream'[Len(stream')])
    IN (/\ ReadsLine /\ vc # 0 /\ IsEndLine(t)
        /\ ~strcasecmp0(EndType(t), heap.vo[vc].type))
       => /\ pc' = "reading"
          /\ vc' = vc
          /\ docs' = docs
          /\ DepthOf(heap', vc', Len(heap'.vo)) = DepthOf(heap, vc, Len(heap.vo))
          /\ Len(heap'.vo) = Len(heap.vo)
          /\ ChildIds(heap', vc) = ChildIds(heap, vc)
          /\ heap'.vo[vc].parent = heap.vo[vc].parent
          /\ Pending' = t

\* an unmatched END is pending and the next line starts a new logical line:
\* the pending line is appended to the properties of the document that was
\* open, as property END with the type as value and no metadata
UnmatchedEndBecomesProperty ==
    LET t == LineText(stream'[Len(stream')])
    IN (/\ ReadsLine /\ vc # 0 /\ IsEndLine(Pending)
        /\ t # <<>> /\ ~IsContinuationLine(t))
       => /\ pc' \in {"reading", "returned"}
          /\ PropViews(heap', vc)
               = Append(PropViews(heap, vc),
                        [key |-> <<"E", "N", "D">>,
                         value |-> EndType(Pending),
                         meta |-> <<>>])

C19_Step == UnmatchedEndKeepsOpen /\ UnmatchedEndBecomesProperty

\* C19: an END:<type> line whose type differs (ignoring case) from the type
\* of the innermost open document does not close any document: the nesting
\* depth and the current document stay the same, and the line becomes an
\* ordinary property named END with value <type> of the still-open innermost
\* document.
C19_UnmatchedEnd == [][C19_Step]_vars

\* BEGIN:A / begin:b / END:a / END:B has been read: END:a did not close b and
\* is its property, END:B closed b
C19_Witness ==
    /\ pc = "reading"
    /\ stream = <<BeginA, BeginB, EndA, EndB>>
    /\ vc = 1
    /\ PropViews(heap, 2)
         = <<[key |-> <<"E", "N", "D">>, value |-> <<"a">>, meta |-> <<>>]>>
---------------------------------------------------------------------------
(* C20 *)

\* the text of the metadata views metas[i..] by the grammar
\* [;metaname[=metavalue]]*, an entry without value giving ;metaname
RECURSIVE GrammarMeta(_, _)
GrammarMeta(metas, i) ==
    IF i > Len(metas) THEN <<>>
    ELSE <<";">> \o metas[i].key
         \o (IF metas[i].value = NullStr THEN <<>>
             ELSE <<"=">> \o metas[i].value)
         \o GrammarMeta(metas, i + 1)

\* the property line of the property view P by the grammar
\* name[;metaname[=metavalue]]*:value
GrammarLine(P) == P.key \o GrammarMeta(P.meta, 1) \o <<":">> \o P.value

\* the property view has a value and a metadata entry without value
HasValuelessMeta(P) ==
    /\ P.value # NullStr
    /\ \E j \in 1..Len(P.meta) : P.meta[j].value = NullStr

\* the written text parses to the property view P
LineParsesTo(text, P) ==
    \A g \in Indeterminate :
        LET r == strtovprop(EmptyHeap, Append(text, NUL), g)
        IN PropView(r.H, r.vp) = P

\* vobject_write has run on the returned document vc
WriteRan == pc = "written" \/ (pc = "crashed" /\ res.crashed)

\* C20: a metadata entry that has no value (TEL;WORK:123) is written back by
\* vobject_write2 as ;WORK with no '=' sign, so that the written property line
\* follows the grammar name[;metaname[=metavalue]]*:value and parses again to
\* an entry without value.
C20_ValuelessMetadata ==
    WriteRan =>
        \A o \in NodesUnder(heap, vc) :
           \A i \in 1..Len(PropViews(heap, o)) :
              HasValuelessMeta(PropViews(heap, o)[i]) =>
                 /\ ~res.crashed
                 /\ \E k \in 1..Len(res.lines) :
                       res.lines[k] = GrammarLine(PropViews(heap, o)[i])
                 /\ LineParsesTo(GrammarLine(PropViews(heap, o)[i]),
                                 PropViews(heap, o)[i])

\* the grammar line of every such property does parse to it: what fails is
\* the writer
GrammarLineParsesBack ==
    WriteRan =>
        \A o \in NodesUnder(heap, vc) :
           \A i \in 1..Len(PropViews(heap, o)) :
              HasValuelessMeta(PropViews(heap, o)[i]) =>
                 /\ res.crashed
                 /\ LineParsesTo(GrammarLine(PropViews(heap, o)[i]),
                                 PropViews(heap, o)[i])

---------------------------------------------------------------------------
(* C21 *)

\* the metadata segments of a logical line: the text before the first
\* unescaped ':' cut at every unescaped ';', without the property name
MetaSegments(line) ==
    LET colons == Unescaped(line, ":")
        head == IF colons = {} THEN line ELSE SubSeq(line, 1, Least(colons) - 1)
        segs == SplitFrom(head, Unescaped(head, ";"), 1)
    IN [i \in 1..(Len(segs) - 1) |-> segs[i + 1]]

\* the segment is name= with nothing behind the '='
EmptyValued(seg) ==
    Unescaped(seg, "=") # {} /\ Least(Unescaped(seg, "=")) = Len(seg)

\* the name of a metadata segment
SegmentName(seg) ==
    IF Unescaped(seg, "=") = {} THEN seg
    ELSE SubSeq(seg, 1, Least(Unescaped(seg, "=")) - 1)

\* C21: a metadata segment with an empty value (EMAIL;TYPE=:x or
\* EMAIL;TYPE=;X=1:x) yields a metadata entry whose value is the empty string:
\* vprop_meta(prop, name) returns "" for the first entry of that name and
\* never text taken from the following segment or from the property value.
C21_EmptyMetadataValue ==
    pc = "prop_done" =>
        \A i \in 1..Len(MetaSegments(arg.line)) :
           (/\ EmptyValued(MetaSegments(arg.line)[i])
            /\ \A j \in 1..(i - 1) :
                  ~strcasecmp0(SegmentName(MetaSegments(arg.line)[j]),
                               SegmentName(MetaSegments(arg.line)[i])))
           => vprop_meta(heap, res.vp, SegmentName(MetaSegments(arg.line)[i])) = <<>>

---------------------------------------------------------------------------
(* C22 *)

\* the physical line holds nothing but \r \n \v \f
EmptyPhysical(raw) == StripLen(raw, Len(raw)) = 0

\* an empty physical line is read while a logical line is pending
C22_Step ==
    (ReadsLine /\ Pending # <<>> /\ EmptyPhysical(stream'[Len(stream')]))
    => (Pending' = Pending /\ savedlen' = savedlen)

\* C22: an empty physical line (nothing left after stripping \r \n \v \f) read
\* while a property line is pending leaves the pending logical line and its
\* recorded length unchanged, so that the property attached afterwards is the
\* same as if the empty line had not been there.
C22_EmptyLineKeepsPending == [][C22_Step]_vars

---------------------------------------------------------------------------
(* C23 *)

\* the BEGIN lines among the first n lines of the stream
BeginLines(n) == {i \in 1..n : IsBeginLine(LineText(stream[i]))}

\* the first BEGIN line read by the running call
FirstBegin == Least({i \in BeginLines(Len(stream)) : i > callstart})

\* the document made for stream line i: documents are made by BEGIN lines
\* only, one after the other
DocOfLine(i) == Cardinality(BeginLines(i))

\* C23: every document returned by vobject_next is a root: it has no parent,
\* and it is the document created by the first BEGIN line read in that call.
C23_ReturnedIsRoot ==
    pc = "returned" =>
       /\ vc # 0
       /\ heap.vo[vc].parent = 0
       /\ \E i \in BeginLines(Len(stream)) : i > callstart
       /\ vc = DocOfLine(FirstBegin)
       /\ heap.vo[vc].type = CStr(Append(LineText(stream[FirstBegin]), NUL), 7)

\* a call that opened a second document inside the first returns the first
C23_Witness ==
    /\ pc = "returned"
    /\ Cardinality({i \in BeginLines(Len(stream)) : i > callstart}) >= 2
    /\ ChildIds(heap, vc) # <<>>
    /\ vc = DocOfLine(FirstBegin)

---------------------------------------------------------------------------
(* vobject.c: vobject_write2(vc, fp, columns) of the library generation that  *)
(* keeps the metadata as text between key and value                          *)

\* a document of that generation: its type, its properties (key, the metadata
\* texts, value) and its children
OldVobject(type, props, children) ==
    [type |-> type, props |-> props, children |-> children]

\* vobject.c lines 433-437: key, ';' and every metadata text, ':' and value
RECURSIVE OldMetaText(_, _)
OldMetaText(metas, i) ==
    IF i > Len(metas) THEN <<>>
    ELSE <<";">> \o metas[i] \o OldMetaText(metas, i + 1)

OldPropertyLine(vp) == vp.key \o OldMetaText(vp.metas, 1) \o <<":">> \o vp.value

\* vobject.c lines 444-454: the fold loop, from offset pos
RECURSIVE OldFoldFrom(_, _, _)
OldFoldFrom(line, fill, pos) ==
    IF pos >= fill THEN <<>>
    ELSE LET width == IF pos # 0 THEN 79 ELSE 80
             todo == IF pos + width > fill THEN fill - pos ELSE width
         IN <<(IF pos # 0 THEN <<" ">> ELSE <<>>)
               \o SubSeq(line, pos + 1, pos + todo)>>
            \o OldFoldFrom(line, fill, pos + todo)

\* vobject.c lines 439-454: one property, unfolded when columns is 0
OldPropertyOutput(line, columns) ==
    IF columns = 0 THEN <<line>> ELSE OldFoldFrom(line, Len(line), 0)

RECURSIVE OldWriteProps(_, _, _)
OldWriteProps(props, i, columns) ==
    IF i > Len(props) THEN <<>>
    ELSE OldPropertyOutput(OldPropertyLine(props[i]), columns)
            \o OldWriteProps(props, i + 1, columns)

\* vobject.c lines 420-466: the physical lines written, without their '\n'
RECURSIVE vobject_write2_columns(_, _)
RECURSIVE OldWriteChildren(_, _, _)
OldWriteChildren(children, i, columns) ==
    IF i > Len(children) THEN <<>>
    ELSE vobject_write2_columns(children[i], columns)
            \o OldWriteChildren(children, i + 1, columns)

vobject_write2_columns(vo, columns) ==
    <<(<<"B", "E", "G", "I", "N", ":">> \o vo.type)>>
       \o OldWriteProps(vo.props, 1, columns)
       \o OldWriteChildren(vo.children, 1, columns)
       \o <<(<<"E", "N", "D", ":">> \o vo.type)>>

\* the widths handed to vobject_write2: 0 (no folding), 80 (icalsplit.c line
\* 120) and widths a caller of the library may choose
ColumnChoices == {0, 1, 20, 40, 79, 80, 81, 132}

\* the document A with one property of fill bytes, with or without a metadata
\* text, and with or without a child B holding the same property
ColumnsDoc(fill, nmeta, nchild) ==
    LET metas == IF nmeta = 1 THEN <<(<<"T", "=", "w">>)>> ELSE <<>>
        vp == [key |-> <<"N">>, metas |-> metas,
               value |-> [i \in 1..(fill - 2 - 4 * nmeta) |-> "a"]]
        child == OldVobject(<<"B">>, <<vp>>, <<>>)
    IN OldVobject(<<"A">>, <<vp>>, IF nchild = 1 THEN <<child>> ELSE <<>>)

InitColumns ==
    /\ ParserIdle
    /\ pc = "columns_call"
    /\ \E fill \in 6..MaxFill, columns \in ColumnChoices, nmeta \in 0..1,
          nchild \in 0..1 :
         arg = [vo |-> ColumnsDoc(fill, nmeta, nchild), columns |-> columns,
                fill |-> fill]
    /\ res = [lines |-> <<>>, nlines |-> 0, crashed |-> FALSE]

\* vobject_write2(vo, fp, columns)
ColumnsWrite ==
    /\ pc = "columns_call"
    /\ \E out \in {vobject_write2_columns(arg.vo, arg.columns)} :
         res' = [lines |-> out, nlines |-> Len(out), crashed |-> FALSE]
    /\ pc' = "columns_done"
    /\ UNCHANGED <<parserVars, arg>>

NextColumns == ColumnsWrite

SpecColumns == InitColumns /\ [][NextColumns]_vars

---------------------------------------------------------------------------
(* C24 *)

\* the physical lines of the first property of the written document
ColumnsSegments ==
    LET n == Len(OldPropertyOutput(OldPropertyLine(arg.vo.props[1]), arg.columns))
    IN SubSeq(res.lines, 2, n + 1)

\* C24: in vobject_write2(vc, fp, columns) with columns > 0 the fold width
\* follows the columns argument: the first physical segment of a property line
\* holds at most columns bytes and every continuation segment at most
\* columns - 1 content bytes after its leading space.
C24_WidthFollowsColumns ==
    (pc = "columns_done" /\ arg.columns > 0) =>
        /\ Len(ColumnsSegments[1]) <= arg.columns
        /\ \A i \in 2..Len(ColumnsSegments) :
              /\ ColumnsSegments[i][1] = " "
              /\ Len(ColumnsSegments[i]) - 1 <= arg.columns - 1

\* what the segments do follow: 80 and 79 bytes for every columns > 0
ColumnsWidth80 ==
    (pc = "columns_done" /\ arg.columns > 0) =>
        /\ Len(ColumnsSegments[1]) = Min(arg.fill, 80)
        /\ \A i \in 2..Len(ColumnsSegments) :
              /\ ColumnsSegments[i][1] = " "
              /\ Len(ColumnsSegments[i]) - 1 \in 1..79
              /\ i < Len(ColumnsSegments) => Len(ColumnsSegments[i]) - 1 = 79

---------------------------------------------------------------------------
(* A property with one metadata value read, written and read again *)

MaxMetaLen == 3

\* the metadata values: every text of up to MaxMetaLen bytes without a double
\* quote, read from the line X;T="<value>":<property value>
MetaValueAlphabet == {"a", ":", ";", "=", ",", "'"}
MetaValues == StringsUpTo(MetaValueAlphabet, MaxMetaLen)
MetaPropValues == {<<>>, <<"v">>, <<"v", ":", "w">>}

MetaQuotedLine(mvalue, pvalue) ==
    <<"X", ";", "T", "=", "\"">> \o mvalue \o <<"\"", ":">> \o pvalue

MetaBareLine(mvalue, pvalue) ==
    <<"X", ";", "T", "=">> \o mvalue \o <<":">> \o pvalue

InitMeta ==
    /\ ParserIdle
    /\ pc = "meta_call"
    /\ arg \in [mvalue : MetaValues, pvalue : MetaPropValues,
                flags : {0, VOF_NOBREAK}]
    /\ res = [lines |-> <<>>, nlines |-> 0, crashed |-> FALSE]

\* what a finished vobject_next call leaves to main
MetaParsed(S, next) ==
    /\ SetLocals(S)
    /\ pc' = IF S.status = "returned" THEN next ELSE S.status
    /\ docs' = IF S.status = "returned" THEN Append(docs, TreeView(S.H, S.vc))
               ELSE docs

\* vobject_next reads the document with the one property
MetaParse ==
    /\ pc = "meta_call"
    /\ \E g \in Indeterminate :
         \E S \in {ParseText(NewCall(EmptyHeap, 0),
                             << <<"B", "E", "G", "I", "N", ":", "A">>,
                                MetaQuotedLine(arg.mvalue, arg.pvalue),
                                <<"E", "N", "D", ":", "A">> >>, 1, g)} :
            MetaParsed(S, "meta_parsed")
    /\ UNCHANGED <<stream, callstart, atEof, arg, res>>

\* vobject_write2(vc, fp, flags)
MetaWrite ==
    /\ pc = "meta_parsed"
    /\ \E ub \in NullOutcomes :
         \E W \in {vobject_write2(heap, vc, arg.flags, ub)} :
            /\ res' = W
            /\ pc' = IF W.crashed THEN "crashed" ELSE "meta_written"
    /\ UNCHANGED <<parserVars, arg>>

\* vobject_next reads what was written
MetaRead ==
    /\ pc = "meta_written"
    /\ \E g \in Indeterminate :
         \E S \in {ParseText(NewCall(EmptyHeap, 0), res.lines, 1, g)} :
            MetaParsed(S, "meta_read")
    /\ UNCHANGED <<stream, callstart, atEof, arg, res>>

NextMeta == MetaParse \/ MetaWrite \/ MetaRead

SpecMeta == InitMeta /\ [][NextMeta]_vars

---------------------------------------------------------------------------
(* C25 *)

HasQuoteChar(s) == \E i \in 1..Len(s) : s[i] \in {"\"", "'"}

\* the metadata value and the property value of the one property of view T
MetaValueOf(T) == T.props[1].meta[1].value
PropValueOf(T) == T.props[1].value

\* the written metadata value is quoted exactly when it holds ':' or ';', and
\* for the values in V without quote characters the written line parses to
\* the same metadata value and the same property value
MetadataQuoting(V) ==
    pc = "meta_read" =>
        /\ MetaValueOf(docs[1]) = arg.mvalue
        /\ PropValueOf(docs[1]) = arg.pvalue
        /\ res.lines[2] = IF strpbrk0(arg.mvalue)
                          THEN MetaQuotedLine(arg.mvalue, arg.pvalue)
                          ELSE MetaBareLine(arg.mvalue, arg.pvalue)
        /\ (arg.mvalue \in V /\ ~HasQuoteChar(arg.mvalue)) =>
              /\ Len(docs[2].props) = 1
              /\ Len(docs[2].props[1].meta) = 1
              /\ MetaValueOf(docs[2]) = arg.mvalue
              /\ PropValueOf(docs[2]) = arg.pvalue

\* C25: vobject_write2 writes a metadata value wrapped in double quotes exactly
\* when the value contains ':' or ';', and bare otherwise; for every metadata
\* value without quote characters, parsing the written line gives back the
\* same metadata value and the same property value.
C25_MetadataQuoting == MetadataQuoting(MetaValues)

\* the same for every metadata value but the empty one
QuotingOfNonEmptyValues == MetadataQuoting(MetaValues \ {<<>>})

\* every call of the three returns: nothing exits or dies on these documents
MetaCallsReturn == pc \in {"meta_call", "meta_parsed", "meta_written", "meta_read"}

---------------------------------------------------------------------------
(* vobject_write2 applied to a property line of multi-byte UTF-8 characters  *)

\* the longest character: a start byte and MaxCharLen - 1 continuation bytes
MaxCharLen == 5

\* the ASCII bytes put before the first character, to move the characters
\* against the fold points
MaxShift == 4

\* a value of len bytes: shift times 'a', then characters of k bytes each (the
\* last one cut off where the value ends)
Utf8Value(len, k, shift) ==
    [i \in 1..len |->
        IF i <= shift \/ k = 1 THEN "a"
        ELSE IF (i - shift - 1) % k = 0 THEN "xC3"
        ELSE "x80"]

\* the document A with the one property N
Utf8Heap(len, k, shift) ==
    LET r == mkvprop(NewChild(EmptyHeap, <<"A">>, 0).H, <<"N">>,
                     Utf8Value(len, k, shift))
    IN vprop_attach(r.H, r.id, 1)

InitUtf8 ==
    /\ vc = 0 /\ saved = <<>> /\ savedlen = 0 /\ savedsize = 0 /\ linenr = 0
    /\ stream = <<>> /\ callstart = 0 /\ atEof = FALSE /\ docs = <<>>
    /\ pc = "utf8_call"
    /\ \E fill \in 2..MaxFill, flags \in 0..3, k \in 1..MaxCharLen,
          shift \in 0..MaxShift :
         /\ k = 1 => shift = 0
         /\ arg = [flags |-> flags, fill |-> fill, k |-> k, shift |-> shift]
         /\ heap = Utf8Heap(fill - 2, k, shift)
    /\ res = [lines |-> <<>>, nlines |-> 0, crashed |-> FALSE]

\* vobject_write2(vc, fp, flags)
Utf8Write ==
    /\ pc = "utf8_call"
    /\ \E ub \in NullOutcomes :
         \E W \in {vobject_write2(heap, 1, arg.flags, ub)} : res' = W
    /\ pc' = "utf8_written"
    /\ UNCHANGED <<parserVars, arg>>

NextUtf8 == Utf8Write

SpecUtf8 == InitUtf8 /\ [][NextUtf8]_vars

---------------------------------------------------------------------------
(* C26 *)

\* no more than n continuation bytes follow one another in line
RunsAtMost(line, n) ==
    \A i \in 1..(Len(line) - n) :
        \E j \in i..(i + n) : ~IsUtf8Continuation(line[j])

\* the content of physical line i of a folded property: the line without the
\* leading space of a continuation line
SegmentContent(segs, i) ==
    IF i = 1 THEN segs[1] ELSE SubSeq(segs[i], 2, Len(segs[i]))

RECURSIVE JoinedContent(_, _)
JoinedContent(segs, i) ==
    IF i > Len(segs) THEN <<>>
    ELSE SegmentContent(segs, i) \o JoinedContent(segs, i + 1)

\* C26: with VOF_UTF8 set and VOF_NOBREAK clear, for every property line in
\* which no more than 3 UTF-8 continuation bytes follow one another, no
\* continuation physical line starts, after its leading space, with a
\* continuation byte; every segment is at most 80 (first) or 79 (continuation)
\* bytes, every non-final segment is at least 72 bytes, and the segments
\* concatenate to the original line.
C26_Utf8SafeFolding ==
    (/\ pc = "utf8_written"
     /\ HasFlag(arg.flags, VOF_UTF8) /\ ~HasFlag(arg.flags, VOF_NOBREAK)
     /\ RunsAtMost(WrittenLine, 3))
    => /\ Len(WrittenSegments) >= 1
       /\ Len(WrittenSegments[1]) <= 80
       /\ \A i \in 2..Len(WrittenSegments) :
             /\ WrittenSegments[i][1] = " "
             /\ Len(WrittenSegments[i]) >= 2
             /\ ~IsUtf8Continuation(WrittenSegments[i][2])
             /\ Len(WrittenSegments[i]) - 1 <= 79
       /\ \A i \in 1..(Len(WrittenSegments) - 1) :
             Len(SegmentContent(WrittenSegments, i)) >= 72
       /\ JoinedContent(WrittenSegments, 1) = WrittenLine

\* a line of 4-byte characters whose first fold point was moved back from 80
\* and whose second one was moved back as well
C26_Witness ==
    /\ pc = "utf8_written"
    /\ arg.flags = VOF_UTF8
    /\ arg.k = 4
    /\ Len(WrittenSegments) = 3
    /\ Len(WrittenSegments[1]) < 80
    /\ Len(WrittenSegments[2]) - 1 < 79
    /\ IsUtf8Continuation(WrittenLine[81])
    /\ ~IsUtf8Continuation(WrittenSegments[2][2])

---------------------------------------------------------------------------
(* C27 *)

\* the property lists of the documents in D are the same before and after
SamePropLists(D) == \A o \in D : PropIds(heap', o) = PropIds(heap, o)

\* one more line is read and the call goes on or returns. While a line is
\* pending the open document stays; the line that ends a logical line puts
\* exactly one property behind the properties of the document that was open
\* before it, whether the line is a BEGIN (the new child starts empty), a
\* matching END (vc moves to the parent afterwards) or the next property line
C27_Step ==
    (ReadsLine /\ pc' \in {"reading", "returned"}) =>
        LET t == LineText(stream'[Len(stream')])
            fresh == t # <<>> /\ ~IsContinuationLine(t)
            old == 1..Len(heap.vo)
            n == Len(PropIds(heap, vc))
        IN /\ DepthOf(heap, vc, Len(heap.vo)) = Len(Ref.stack)
           /\ ~fresh => (vc' = vc /\ SamePropLists(old))
           /\ (fresh /\ (Pending = <<>> \/ vc = 0)) => SamePropLists(old)
           /\ (fresh /\ Pending # <<>> /\ vc # 0) =>
                 /\ Len(PropIds(heap', vc)) = n + 1
                 /\ SubSeq(PropIds(heap', vc), 1, n) = PropIds(heap, vc)
                 /\ PropIds(heap', vc)[n + 1] = Len(heap.vp) + 1
                 /\ heap'.vp[Len(heap.vp) + 1].key
                       = SubSeq(Pending, 1, Len(heap'.vp[Len(heap.vp) + 1].key))
                 /\ SamePropLists(old \ {vc})
           /\ (fresh /\ IsBeginLine(t)) =>
                 /\ vc' = Len(heap.vo) + 1
                 /\ heap'.vo[vc'].parent = vc
                 /\ PropIds(heap', vc') = <<>>
           /\ (fresh /\ ~IsBeginLine(t)) => Len(heap'.vo) = Len(heap.vo)
           /\ (fresh /\ vc # 0 /\ IsEndLine(t)
                 /\ strcasecmp0(EndType(t), heap.vo[vc].type)) =>
                 vc' = IF heap.vo[vc].parent = 0 THEN vc ELSE heap.vo[vc].parent

\* C27: each logical property line is attached to the document that was the
\* innermost open one when the property's first physical line was read, also
\* when the line read next is a BEGIN (the property goes to the parent, not to
\* the new child) or a matching END (the property goes to the document being
\* closed); within a document the properties appear in the order of their
\* logical lines in the input.
C27_PropertyOwner == [][C27_Step]_vars

\* N:x before begin:b went to A, N:x before END:B went to b
C27_Witness ==
    /\ pc = "reading"
    /\ Len(stream) = 5
    /\ IsBeginLine(LineText(stream[3]))
    /\ IsEndLine(LineText(stream[5]))
    /\ Len(heap.vo) = 2
    /\ vc = 1
    /\ Len(PropViews(heap, 1)) = 1
    /\ Len(PropViews(heap, 2)) = 1
    /\ ChildIds(heap, 1) = <<2>>

---------------------------------------------------------------------------
(* A document with a type of a chosen length, read and written *)

MaxTypeLen == 80

\* the lengths of the one property line N:<value>
TypeFills == {3, 80, 81, 160}

TypeName(tlen) == [i \in 1..tlen |-> "T"]

InitType ==
    /\ ParserIdle
    /\ pc = "type_call"
    /\ arg \in [tlen : 1..MaxTypeLen, fill : TypeFills, flags : 0..3]
    /\ res = [lines |-> <<>>, nlines |-> 0, crashed |-> FALSE]

\* vobject_next reads BEGIN:<type>, the property line and END:<type>
TypeParse ==
    /\ pc = "type_call"
    /\ \E g \in Indeterminate :
         \E S \in {ParseText(NewCall(EmptyHeap, 0),
                             << <<"B", "E", "G", "I", "N", ":">> \o TypeName(arg.tlen),
                                <<"N", ":">> \o [i \in 1..(arg.fill - 2) |-> "a"],
                                <<"E", "N", "D", ":">> \o TypeName(arg.tlen) >>,
                             1, g)} :
            MetaParsed(S, "type_parsed")
    /\ UNCHANGED <<stream, callstart, atEof, arg, res>>

\* vobject_write2(vc, fp, flags)
TypeWrite ==
    /\ pc = "type_parsed"
    /\ \E ub \in NullOutcomes :
         \E W \in {vobject_write2(heap, vc, arg.flags, ub)} : res' = W
    /\ pc' = "type_written"
    /\ UNCHANGED <<parserVars, arg>>

NextType == TypeParse \/ TypeWrite

SpecType == InitType /\ [][NextType]_vars

---------------------------------------------------------------------------
(* C28 *)

\* C28: with folding enabled (VOF_NOBREAK clear) every physical line written
\* by vobject_write2, the BEGIN:<type> and END:<type> lines included, is at
\* most 80 bytes long before its newline, for documents of any type length.
C28_EveryLineWithin80 ==
    (pc = "type_written" /\ ~HasFlag(arg.flags, VOF_NOBREAK)) =>
        \A i \in 1..Len(res.lines) : Len(res.lines[i]) <= 80

\* the property lines are within 80 bytes; the BEGIN and END lines are
\* written whole
PropertyLinesWithin80 ==
    (pc = "type_written" /\ ~HasFlag(arg.flags, VOF_NOBREAK)) =>
        /\ \A i \in 2..(Len(res.lines) - 1) : Len(res.lines[i]) <= 80
        /\ Len(res.lines[1]) = 6 + arg.tlen
        /\ Len(res.lines[Len(res.lines)]) = 4 + arg.tlen
        /\ heap.vo[vc].type = TypeName(arg.tlen)

---------------------------------------------------------------------------
(* C29 *)

\* a line starting with space or tab is read while no line is pending
C29_Step ==
    (ReadsLine /\ Pending = <<>>
       /\ IsContinuationLine(LineText(stream'[Len(stream')])))
    => /\ pc' = "reading"
       /\ heap' = heap
       /\ vc' = vc
       /\ Pending' = <<>>
       /\ savedlen' = savedlen

\* C29: a line starting with space or tab that has no pending property line
\* before it (at the start of the stream, directly after a BEGIN line or
\* directly after a matching END line) is skipped: it changes neither the tree
\* nor the pending accumulator, it does not extend the type of the BEGIN line
\* before it, and parsing goes on with the next line.
C29_StrayContinuationSkipped == [][C29_Step]_vars

\* what the line does leave alone: the tree, the open document and the
\* accumulator are as before when the process ends
StrayContinuationEndsProcess ==
    [][(ReadsLine /\ Pending = <<>>
          /\ IsContinuationLine(LineText(stream'[Len(stream')])))
       => (pc' = "exited" /\ heap' = heap /\ vc' = vc /\ Pending' = <<>>
             /\ savedlen' = savedlen)]_vars

---------------------------------------------------------------------------
(* C30 *)

\* a line that is neither empty nor a continuation is read while no document
\* is open: a property line is only saved; the line that follows a saved one
\* drops it, and a BEGIN opens a document without properties
C30_Step ==
    (ReadsLine /\ vc = 0) =>
        LET t == LineText(stream'[Len(stream')])
            fresh == t # <<>> /\ ~IsContinuationLine(t)
        IN fresh =>
              /\ pc' = "reading"
              /\ heap'.vp = heap.vp
              /\ SamePropLists(1..Len(heap.vo))
              /\ IF IsBeginLine(t)
                 THEN /\ vc' = Len(heap.vo) + 1
                      /\ heap'.vo[vc'].parent = 0
                      /\ PropIds(heap', vc') = <<>>
                      /\ Pending' = <<>>
                 ELSE /\ vc' = 0
                      /\ heap' = heap
                      /\ Pending' = t

\* C30: a property line read while no document is open (before the first
\* BEGIN of a call, or between two top-level documents) is dropped without
\* ending the parse: it is attached to no document, and the document opened by
\* the following BEGIN starts with an empty property list.
C30_StrayPropertyDropped == [][C30_Step]_vars

\* the second call read the line X and then a BEGIN: the new document is
\* open and has no property
C30_Witness ==
    /\ pc = "reading"
    /\ callstart > 0
    /\ Len(stream) = callstart + 2
    /\ LineText(stream[callstart + 1]) = <<"X">>
    /\ IsBeginLine(LineText(stream[Len(stream)]))
    /\ vc = Len(heap.vo)
    /\ PropIds(heap, vc) = <<>>
    /\ Pending = <<>>

---------------------------------------------------------------------------
(* C31 *)

\* the text of the metadata views metas[i..] as the writer is documented to
\* give it: quoted when the value holds ':' or ';'
RECURSIVE ViewMetaText(_, _)
ViewMetaText(metas, i) ==
    IF i > Len(metas) THEN <<>>
    ELSE <<";">> \o metas[i].key \o <<"=">>
         \o (IF strpbrk0(metas[i].value)
             THEN <<"\"">> \o metas[i].value \o <<"\"">>
             ELSE metas[i].value)
         \o ViewMetaText(metas, i + 1)

\* a property without value that got through printf is written as (null)
ViewLine(P) ==
    P.key \o ViewMetaText(P.meta, 1) \o <<":">>
       \o (IF P.value = NullStr THEN <<"(", "n", "u", "l", "l", ")">> ELSE P.value)

\* the documented order for the tree view T: BEGIN, the properties in list
\* order, every child completely and in child order, END
RECURSIVE OrderedOutput(_)
RECURSIVE OrderedChildren(_, _)
OrderedChildren(cs, i) ==
    IF i > Len(cs) THEN <<>>
    ELSE OrderedOutput(cs[i]) \o OrderedChildren(cs, i + 1)

OrderedOutput(T) ==
    <<(<<"B", "E", "G", "I", "N", ":">> \o T.type)>>
       \o [i \in 1..Len(T.props) |-> ViewLine(T.props[i])]
       \o OrderedChildren(T.children, 1)
       \o <<(<<"E", "N", "D", ":">> \o T.type)>>

---------------------------------------------------------------------------
(* C32 *)

\* the physical segments a property line of L bytes is written in when every
\* fold is at the full width: 80 bytes, then 79 bytes each
FullWidthSegments(L) == IF L <= 80 THEN 1 ELSE 1 + ((L - 80) + 78) \div 79

RECURSIVE ViewLineCount(_)
RECURSIVE ViewLineCountOf(_, _)
ViewLineCountOf(cs, n) ==
    IF n = 0 THEN 0 ELSE ViewLineCount(cs[n]) + ViewLineCountOf(cs, n - 1)
ViewLineCount(T) ==
    2 + Len(T.props) + ViewLineCountOf(T.children, Len(T.children))

ReturnedCountWithChildren ==
    pc = "written" =>
        /\ res.nlines = Len(res.lines)
        /\ res.nlines = ViewLineCount(TreeView(heap, vc))

---------------------------------------------------------------------------
(* C33 *)

\* C33: each call of vobject_next adds to *linenr exactly the number of
\* physical lines it read in that call, skipped and malformed lines included
\* and the end-of-stream attempt excluded; after a stream was parsed to the end
\* by repeated calls with the same counter starting at 0, the counter equals
\* the number of physical lines of the stream.
C33_LineCounter ==
    /\ linenr = Len(stream)
    /\ callstart <= linenr
    /\ pc = "done" => (atEof /\ linenr = Len(stream))

\* the stream was parsed to its end by two calls; it held a document, a
\* continuation line inside it and a line outside of it
C33_Witness ==
    /\ pc = "done"
    /\ Len(docs) = 1
    /\ linenr = 5
    /\ callstart > 0
    /\ callstart < 5
    /\ \E i \in 1..Len(stream) : IsContinuationLine(LineText(stream[i]))

---------------------------------------------------------------------------
(* C34 *)

IsN(P) == strcasecmp0(P.key, <<"N">>)

\* the properties props[i..] without the N properties that have an N before
\* them in the list
RECURSIVE FirstNOnly(_, _)
FirstNOnly(props, i) ==
    IF i > Len(props) THEN <<>>
    ELSE IF IsN(props[i]) /\ \E j \in 1..(i - 1) : IsN(props[j])
    THEN FirstNOnly(props, i + 1)
    ELSE <<props[i]>> \o FirstNOnly(props, i + 1)

\* the tree view T as vobject_fix is said to leave it: a VCARD keeps its first
\* N only, a VCALENDAR has every child fixed, anything else stays
RECURSIVE FixedView(_)
FixedView(T) ==
    IF strcasecmp0(T.type, VCALENDAR)
    THEN [T EXCEPT !.children = [i \in 1..Len(T.children) |->
                                     FixedView(T.children[i])]]
    ELSE IF strcasecmp0(T.type, VCARD)
    THEN [T EXCEPT !.props = FirstNOnly(T.props, 1)]
    ELSE T

\* vobject_fix has been called on the root and died
FixDied == pc = "crashed" /\ res.before = <<>>

\* vobject_fix has been called on the root and returned
FixReturned == HasFlag(arg.flags, 2 ^ OPT_FIX) /\ res.before # <<>>

\* C34: vobject_fix on a VCARD document (or on every VCARD child of a
\* VCALENDAR) leaves at most one property named N (ignoring case): the first
\* one in list order is kept and every later N property is removed, whether
\* its value equals the first one's or not; all other properties stay, in
\* their order, and removing a property during the walk never makes the walk
\* skip a property or visit a removed one.
C34_FixKeepsFirstN ==
    /\ ~FixDied
    /\ FixReturned =>
          res.before[1] = FixedView(TreeView(SplitHeap(arg.root), 1))

\* the same for the roots in which every N property has a value
ValuedN(T) ==
    /\ \A i \in 1..Len(T.props) : IsN(T.props[i]) => T.props[i].value # NullStr
    /\ \A i \in 1..Len(T.children) :
          \A j \in 1..Len(T.children[i].props) :
             IsN(T.children[i].props[j]) => T.children[i].props[j].value # NullStr

FixOfValuedN ==
    ValuedN(TreeView(SplitHeap(arg.root), 1)) =>
        /\ ~FixDied
        /\ FixReturned =>
              res.before[1] = FixedView(TreeView(SplitHeap(arg.root), 1))

---------------------------------------------------------------------------
(* vobject.c, the library generation linked into testvcard: a struct vprop  *)
(* holds the whole logical line in key[], cut by NUL bytes into key,        *)
(* metadata texts and value; meta and value point into it (0 is NULL).      *)

\* zalloc(sizeof(*vp) + strlen(line) + 1): every link is NULL
OldVprop(buf) ==
    [buf |-> buf, meta |-> 0, value |-> 0, next |-> 0, prev |-> 0, up |-> 0,
     live |-> TRUE]

\* strchr(buf + from - 1, c): plain search up to the terminating NUL
RECURSIVE strchrAt(_, _, _)
strchrAt(buf, from, c) ==
    IF from > Len(buf) \/ buf[from] = NUL THEN 0
    ELSE IF buf[from] = c THEN from
    ELSE strchrAt(buf, from + 1, c)

\* strchresc(buf + from - 1, c) as a position in buf
strchrescAt(buf, from, c) ==
    LET at == strchresc(CStr(buf, from), c)
    IN IF at = 0 THEN 0 ELSE from + at - 1

\* vobject.c lines 211-212: the for loop, str is the separator found (0: none)
RECURSIVE append_line_metas(_, _)
append_line_metas(buf, str) ==
    IF str = 0 THEN buf
    ELSE append_line_metas([buf EXCEPT ![str] = NUL],
                           strchrAt([buf EXCEPT ![str] = NUL], str + 1, ";"))

\* vobject.c lines 196-224: the logical line becomes the last property of vc;
\* vp->up stays as zalloc left it
vobject_append_line(H, o, line) ==
    LET id == Len(H.vp) + 1
        buf0 == line \o <<NUL>>
        colon == strchresc(CStr(buf0, 1), ":")
        buf1 == IF colon # 0 THEN [buf0 EXCEPT ![colon] = NUL] ELSE buf0
        semi == strchresc(CStr(buf1, 1), ";")
        buf2 == IF semi # 0 THEN [buf1 EXCEPT ![semi] = NUL] ELSE buf1
        buf3 == IF semi # 0
                THEN append_line_metas(buf2, strchrescAt(buf2, semi + 1, ";"))
                ELSE buf2
        last == H.vo[o].proplast
        vp == [OldVprop(buf3) EXCEPT
                  !.value = IF colon # 0 THEN colon + 1 ELSE 0,
                  !.meta = IF semi # 0 THEN semi + 1 ELSE 0,
                  !.prev = last]
        G == [H EXCEPT !.vp = Append(@, vp)]
        link(A) == IF last # 0 THEN [A EXCEPT !.vp[last].next = id]
                   ELSE [A EXCEPT !.vo[o].props = id]
    IN [link(G) EXCEPT !.vo[o].proplast = id]

\* vobject.c lines 130-146: the metadata text after str (0: the first one)
vprop_next_meta(vp, str) ==
    LET nxt == str + strlenAt(vp.buf, str) + 1
    IN IF str = 0 THEN vp.meta
       ELSE IF vp.value = 0 \/ nxt >= vp.value THEN 0   \* NULL: str >= NULL
       ELSE nxt

\* the metadata texts that the walk with vprop_next_meta visits
RECURSIVE OldMetasFrom(_, _)
OldMetasFrom(vp, str) ==
    IF str = 0 THEN <<>>
    ELSE <<CStr(vp.buf, str)>> \o OldMetasFrom(vp, vprop_next_meta(vp, str))

OldMetas(vp) == OldMetasFrom(vp, vprop_next_meta(vp, 0))

OldKey(vp) == CStr(vp.buf, 1)
OldValue(vp) == IF vp.value = 0 THEN NullStr ELSE CStr(vp.buf, vp.value)

\* vobject.c lines 256-270: vp->up is read without a test; with up NULL the
\* read is at address 0 (ub "crash"), or finds nothing that equals vp. The
\* links of vp itself stay as they were.
vprop_detach_old(H, p, ub) ==
    LET up == H.vp[p].up
        nx == H.vp[p].next
        pv == H.vp[p].prev
        o == -up
        first(G) == IF up # 0 /\ G.vo[o].props = p
                    THEN [G EXCEPT !.vo[o].props = nx] ELSE G
        last(G) == IF up # 0 /\ G.vo[o].proplast = p
                   THEN [G EXCEPT !.vo[o].proplast = pv] ELSE G
        before(G) == IF pv # 0 THEN [G EXCEPT !.vp[pv].next = nx] ELSE G
        after(G) == IF nx # 0 THEN [G EXCEPT !.vp[nx].prev = pv] ELSE G
    IN IF ~H.vp[p].live \/ (up = 0 /\ ub = "crash")
       THEN [H |-> H, crashed |-> TRUE]
       ELSE [H |-> after(before(last(first(H)))), crashed |-> FALSE]

\* vobject.c lines 272-286: vp->next is set to the head of the list
vprop_attach_old(H, p, o, ub) ==
    LET D == vprop_detach_old(H, p, ub)
        link(G, head, last) ==
            LET G1 == [G EXCEPT !.vp[p].prev = last, !.vp[p].next = head]
                G2 == IF head # 0 THEN [G1 EXCEPT !.vp[head].prev = p] ELSE G1
                G3 == IF last # 0 THEN [G2 EXCEPT !.vp[last].next = p]
                      ELSE [G2 EXCEPT !.vo[o].props = p]
            IN [G3 EXCEPT !.vo[o].proplast = p, !.vp[p].up = -o]
    IN IF D.crashed THEN D
       ELSE [H |-> link(D.H, D.H.vo[o].props, D.H.vo[o].proplast),
             crashed |-> FALSE]

\* vobject.c lines 299-303: a block that is freed twice ends the process
vprop_free_old(H, p, ub) ==
    LET D == vprop_detach_old(H, p, ub)
    IN IF D.crashed THEN D
       ELSE [H |-> [D.H EXCEPT !.vp[p].live = FALSE,
                               !.freed = Append(@, <<"vp", p>>)],
             crashed |-> FALSE]

\* vobject.c lines 309-310: while (vc->props) vprop_free(vc->props)
RECURSIVE vobject_free_props_old(_, _, _)
vobject_free_props_old(H, o, ub) ==
    LET rest(D) == IF D.crashed THEN D ELSE vobject_free_props_old(D.H, o, ub)
    IN IF H.vo[o].props = 0 THEN [H |-> H, crashed |-> FALSE]
       ELSE rest(vprop_free_old(H, H.vo[o].props, ub))

\* vobject.c lines 306-316
RECURSIVE vobject_free_old(_, _, _)
RECURSIVE vobject_free_list_old(_, _, _)
vobject_free_list_old(H, o, ub) ==
    LET rest(D) == IF D.crashed THEN D ELSE vobject_free_list_old(D.H, o, ub)
    IN IF H.vo[o].list = 0 THEN [H |-> H, crashed |-> FALSE]
       ELSE rest(vobject_free_old(H, H.vo[o].list, ub))

vobject_free_old(H, o, ub) ==
    LET release(G) == [G EXCEPT !.vo[o].live = FALSE,
                                !.freed = Append(@, <<"vo", o>>)]
        finish(D) == IF D.crashed THEN D
                     ELSE [H |-> release(vobject_detach(D.H, o)),
                           crashed |-> FALSE]
        children(D) == IF D.crashed THEN D
                       ELSE finish(vobject_free_list_old(D.H, o, ub))
    IN children(vobject_free_props_old(H, o, ub))

\* vobject.c lines 473-488: the copy has the text and NULL links; without a
\* value the length handed to zalloc and memcpy is the difference of NULL and
\* key (ub "crash": the copy runs out of the mapped memory)
vprop_dup_old(H, src, ub) ==
    LET vp == H.vp[src]
        id == Len(H.vp) + 1
        copy == [OldVprop(vp.buf) EXCEPT !.value = vp.value, !.meta = vp.meta]
    IN IF vp.value = 0 /\ ub = "crash"
       THEN [H |-> H, id |-> 0, crashed |-> TRUE]
       ELSE [H |-> [H EXCEPT !.vp = Append(@, copy)], id |-> id,
             crashed |-> FALSE]

\* vobject.c lines 498-499: for (prop = src->props; prop; prop = prop->next)
RECURSIVE vobject_dup_props_old(_, _, _, _)
vobject_dup_props_old(H, prop, dst, ub) ==
    LET rest(D) == IF D.crashed THEN D
                   ELSE vobject_dup_props_old(D.H, D.H.vp[prop].next, dst, ub)
        attach(C) == IF C.crashed THEN [H |-> C.H, crashed |-> TRUE]
                     ELSE rest(vprop_attach_old(C.H, C.id, dst, ub))
    IN IF prop = 0 THEN [H |-> H, crashed |-> FALSE]
       ELSE attach(vprop_dup_old(H, prop, ub))

\* vobject.c lines 490-501
vobject_dup_root_old(H, src, ub) ==
    LET fill(A) == LET D == vobject_dup_props_old(A.H, H.vo[src].props, A.id, ub)
                   IN [H |-> D.H, id |-> A.id, crashed |-> D.crashed]
    IN fill(AllocVobject(H, H.vo[src].type))

\* vobject.c lines 503-514: the root and, below it, a copy of every child
RECURSIVE vobject_dup_old(_, _, _)
RECURSIVE vobject_dup_children_old(_, _, _, _)
vobject_dup_children_old(H, child, dst, ub) ==
    LET rest(G) == vobject_dup_children_old(G, G.vo[child].next, dst, ub)
        attach(S) == IF S.crashed THEN [H |-> S.H, crashed |-> TRUE]
                     ELSE rest(vobject_attach(S.H, S.id, dst))
    IN IF child = 0 THEN [H |-> H, crashed |-> FALSE]
       ELSE attach(vobject_dup_old(H, child, ub))

vobject_dup_old(H, src, ub) ==
    LET children(R) ==
            IF R.crashed THEN R
            ELSE LET D == vobject_dup_children_old(R.H, H.vo[src].list, R.id, ub)
                 IN [H |-> D.H, id |-> R.id, crashed |-> D.crashed]
    IN children(vobject_dup_root_old(H, src, ub))

\* the walk for (vp = first; vp; vp = vp->next) cut off after n steps: the
\* properties visited, and whether the walk has come to NULL
RECURSIVE OldWalk(_, _, _)
OldWalk(H, p, n) ==
    IF p = 0 THEN [ids |-> <<>>, ended |-> TRUE]
    ELSE IF n = 0 THEN [ids |-> <<>>, ended |-> FALSE]
    ELSE LET R == OldWalk(H, H.vp[p].next, n - 1)
         IN [ids |-> <<p>> \o R.ids, ended |-> R.ended]

OldPropIds(H, o) == OldWalk(H, H.vo[o].props, Len(H.vp) + 1)

\* the document o as its type, the properties of its walk and its children
RECURSIVE OldView(_, _)
OldView(H, o) ==
    LET ids == OldPropIds(H, o).ids
        kids == ChildIds(H, o)
    IN OldVobject(H.vo[o].type,
                  [i \in 1..Len(ids) |->
                      [key |-> OldKey(H.vp[ids[i]]),
                       metas |-> OldMetas(H.vp[ids[i]]),
                       value |-> OldValue(H.vp[ids[i]])]],
                  [i \in 1..Len(kids) |-> OldView(H, kids[i])])

---------------------------------------------------------------------------
(* testvcard.c main over vobject.c:                                         *)
(*   while ((vc = vobject_next(stdin, &linenr))) {                          *)
(*       vobject_write(vc, stdout); vobject_free(vc); }                     *)

\* vobject.c lines 354-361: the saved logical line becomes a property of vc
OldFlush(S) ==
    IF S.saved = <<>> \/ S.saved[1] = NUL THEN S
    ELSE [S EXCEPT !.H = IF S.vc # 0
                         THEN vobject_append_line(S.H, S.vc, CStr(S.saved, 1))
                         ELSE S.H,
                   !.savedlen = 0,
                   !.saved = [S.saved EXCEPT ![1] = NUL]]

\* vobject.c lines 329-391 after getline returned the physical line raw
OldLoopBody(S, raw, ub) ==
    LET ret == StripLen(raw, Len(raw))
        line == [Append(raw, NUL) EXCEPT ![ret + 1] = NUL]
        S1 == [S EXCEPT !.linenr = @ + 1]
    IN IF strchrIn({"\t", " "}, line[1])
       THEN Continuation(S1, line, ret, ub)
       ELSE FreshLine(OldFlush(S1), line, ret)

\* the physical lines of the files read
OldFileLines ==
    { <<"B", "E", "G", "I", "N", ":", "A">> \o LF,
      <<"B", "E", "G", "I", "N", ":", "B">> \o LF,
      <<"E", "N", "D", ":", "A">> \o LF,
      <<"E", "N", "D", ":", "B">> \o LF,
      <<"N", ":", "1">> \o LF,
      <<"X", ";", "T", "=", "1", ":", "v">> \o LF,
      <<" ", "c">> \o LF }

\* vobject.c line 470 and 420-466: vobject_write(vc, stdout); a property
\* without value is printed with %s of NULL
OldNullValues(T) ==
    [T EXCEPT !.props = [i \in 1..Len(T.props) |->
                            IF T.props[i].value = NullStr
                            THEN [T.props[i] EXCEPT
                                     !.value = <<"(", "n", "u", "l", "l", ")">>]
                            ELSE T.props[i]]]

RECURSIVE OldPrintable(_)
OldPrintable(T) ==
    [OldNullValues(T) EXCEPT
        !.children = [i \in 1..Len(T.children) |-> OldPrintable(T.children[i])]]

RECURSIVE OldHasNull(_)
OldHasNull(T) ==
    \/ \E i \in 1..Len(T.props) : T.props[i].value = NullStr
    \/ \E i \in 1..Len(T.children) : OldHasNull(T.children[i])

vobject_write_old(H, o, ub) ==
    LET T == OldView(H, o)
        out == vobject_write2_columns(OldPrintable(T), 80)
    IN IF OldHasNull(T) /\ ub = "crash"
       THEN [lines |-> <<>>, nlines |-> 0, crashed |-> TRUE]
       ELSE [lines |-> out, nlines |-> Len(out), crashed |-> FALSE]

InitOld ==
    /\ ParserIdle
    /\ pc = "old_idle"
    /\ arg = [program |-> "testvcard"]
    /\ res = [lines |-> <<>>, nlines |-> 0, crashed |-> FALSE]

\* main calls vobject_next(stdin, &linenr)
OldCall ==
    /\ pc = "old_idle"
    /\ SetLocals(NewCall(heap, linenr))
    /\ callstart' = Len(stream)
    /\ pc' = "old_reading"
    /\ UNCHANGED <<stream, atEof, docs, arg, res>>

\* getline returns one more physical line
OldReadLine ==
    /\ pc = "old_reading"
    /\ ~atEof
    /\ Len(stream) < MaxLines
    /\ \E raw \in OldFileLines, ub \in UbOutcomes :
         \E S \in {OldLoopBody(Locals, raw, ub)} :
            /\ SetLocals(S)
            /\ stream' = Append(stream, raw)
            /\ pc' = IF S.status = "reading" THEN "old_reading"
                     ELSE IF S.status = "returned" THEN "old_returned"
                     ELSE S.status
            /\ docs' = IF S.status = "returned"
                       THEN Append(docs, OldView(S.H, S.vc)) ELSE docs
    /\ UNCHANGED <<callstart, atEof, arg, res>>

\* getline returns -1
OldReadEof ==
    /\ pc = "old_reading"
    /\ atEof' = TRUE
    /\ \E S \in {LoopEof(Locals)} :
         /\ SetLocals(S)
         /\ pc' = IF S.status = "exited" THEN "exited"
                  ELSE IF S.vc # 0 THEN "old_returned" ELSE "done"
         /\ docs' = IF S.status = "returned" /\ S.vc # 0
                    THEN Append(docs, OldView(S.H, S.vc)) ELSE docs
    /\ UNCHANGED <<stream, callstart, arg, res>>

\* main writes the document: vobject_write(vc, stdout)
OldWriteDoc ==
    /\ pc = "old_returned"
    /\ \E ub \in NullOutcomes :
         \E W \in {vobject_write_old(heap, vc, ub)} :
            /\ res' = [lines |-> res.lines \o W.lines,
                       nlines |-> W.nlines, crashed |-> W.crashed]
            /\ pc' = IF W.crashed THEN "crashed" ELSE "old_written"
    /\ UNCHANGED <<parserVars, arg>>

\* main frees the document: vobject_free(vc)
OldFreeDoc ==
    /\ pc = "old_written"
    /\ \E ub \in UbOutcomes :
         \E D \in {vobject_free_old(heap, vc, ub)} :
            /\ heap' = D.H
            /\ res' = [res EXCEPT !.crashed = D.crashed]
            /\ pc' = IF D.crashed THEN "crashed" ELSE "old_idle"
    /\ UNCHANGED <<vc, saved, savedlen, savedsize, linenr, stream, callstart,
                   atEof, docs, arg>>

NextOld == OldCall \/ OldReadLine \/ OldReadEof \/ OldWriteDoc \/ OldFreeDoc

SpecOld == InitOld /\ [][NextOld]_vars

---------------------------------------------------------------------------
(* C35 *)

\* the blocks of the documents D[i..], one after the other
RECURSIVE OldBlocks(_, _)
OldBlocks(D, i) ==
    IF i > Len(D) THEN <<>>
    ELSE vobject_write2_columns(OldPrintable(D[i]), 80) \o OldBlocks(D, i + 1)

\* C35: the read-write loop of the test program (vobject_next,
\* vobject_write, vobject_free until vobject_next returns none) comes to its
\* end on every finite input, and has then written one BEGIN ... END block per
\* document that vobject_next returned, in input order: no step of the loop
\* ends the process, and after every vobject_free the output holds the blocks
\* of the documents returned so far.
C35_ReadWriteLoop ==
    /\ pc # "crashed"
    /\ pc \in {"old_idle", "done"} => res.lines = OldBlocks(docs, 1)

\* the loop over documents that hold no property
OldBare(T) ==
    /\ T.props = <<>>
    /\ \A i \in 1..Len(T.children) : T.children[i].props = <<>>

C35_BareDocuments ==
    (\A i \in 1..Len(docs) : OldBare(docs[i])) =>
        /\ pc # "crashed"
        /\ pc \in {"old_idle", "done"} => res.lines = OldBlocks(docs, 1)

\* two documents without property have gone through the loop
C35_BareWitness ==
    /\ pc = "done"
    /\ Len(docs) = 2
    /\ res.lines = OldBlocks(docs, 1)

---------------------------------------------------------------------------
(* vobject.c: vobject_dup_root and vobject_dup of a parsed document, the    *)
(* walk over the copy's properties, and vobject_free of the copy            *)

MaxOldProps == 3

\* the logical lines of the source document
OldPropLines ==
    { <<"N", ":", "1">>,
      <<"M", ":", "2">>,
      <<"X", ";", "T", "=", "1", ":", "v">>,
      <<"K">> }

\* vobject_next on BEGIN:A, the lines, nchild times BEGIN:B K:1 END:B, END:A
RECURSIVE OldAppendLines(_, _, _, _)
OldAppendLines(H, o, lines, i) ==
    IF i > Len(lines) THEN H
    ELSE OldAppendLines(vobject_append_line(H, o, lines[i]), o, lines, i + 1)

OldHeap(lines, nchild) ==
    LET root == OldAppendLines(AllocVobject(EmptyHeap, <<"A">>).H, 1, lines, 1)
        child(C) == vobject_append_line(C.H, C.id, <<"K", ":", "1">>)
    IN IF nchild = 0 THEN root ELSE child(NewChild(root, <<"B">>, 1))

InitDup ==
    /\ \E lines \in StringsUpTo(OldPropLines, MaxOldProps), nchild \in 0..1,
          deep \in BOOLEAN :
         /\ arg = [lines |-> lines, nchild |-> nchild, deep |-> deep]
         /\ heap = OldHeap(lines, nchild)
    /\ vc = 1 /\ saved = <<>> /\ savedlen = 0 /\ savedsize = 0 /\ linenr = 0
    /\ stream = <<>> /\ callstart = 0 /\ atEof = FALSE /\ docs = <<>>
    /\ pc = "dup_call"
    /\ res = [copy |-> 0, walk |-> <<>>, ended |-> TRUE, crashed |-> FALSE]

dupFrame == <<vc, saved, savedlen, savedsize, linenr, stream, callstart,
              atEof, docs, arg>>

\* copy = vobject_dup_root(vc), or copy = vobject_dup(vc)
DupCall ==
    /\ pc = "dup_call"
    /\ \E ub \in UbOutcomes :
         \E D \in {IF arg.deep THEN vobject_dup_old(heap, vc, ub)
                   ELSE vobject_dup_root_old(heap, vc, ub)} :
            /\ heap' = D.H
            /\ res' = [res EXCEPT !.copy = D.id, !.crashed = D.crashed]
            /\ pc' = IF D.crashed THEN "crashed" ELSE "dup_done"
    /\ UNCHANGED dupFrame

\* for (vp = vobject_props(copy); vp; vp = vprop_next(vp)), given up after
\* more steps than there are properties
DupWalk ==
    /\ pc = "dup_done"
    /\ \E W \in {OldPropIds(heap, res.copy)} :
         res' = [res EXCEPT !.walk = W.ids, !.ended = W.ended]
    /\ pc' = "dup_walked"
    /\ UNCHANGED <<heap, dupFrame>>

\* vobject_free(copy)
DupFree ==
    /\ pc = "dup_walked"
    /\ \E ub \in UbOutcomes :
         \E D \in {vobject_free_old(heap, res.copy, ub)} :
            /\ heap' = D.H
            /\ res' = [res EXCEPT !.crashed = D.crashed]
            /\ pc' = IF D.crashed THEN "crashed" ELSE "dup_freed"
    /\ UNCHANGED dupFrame

NextDup == DupCall \/ DupWalk \/ DupFree

SpecDup == InitDup /\ [][NextDup]_vars

---------------------------------------------------------------------------
(* C36 *)

\* the logical line a property was made from, without its separators
OldText(H, p) ==
    <<OldKey(H.vp[p]), OldMetas(H.vp[p]), OldValue(H.vp[p])>>

OldTexts(H, ids) == [i \in 1..Len(ids) |-> OldText(H, ids[i])]

\* C36: vprop_attach(vp, vo) appends vp as the last property of vo and the
\* property list stays a finite chain that ends at NULL, so vobject_dup_root
\* (and vobject_dup) returns, and the walk over the copy's properties comes
\* to NULL after it has visited one copy per property of the source, in the
\* source's order.
C36_DupKeepsChain ==
    /\ pc # "crashed"
    /\ pc = "dup_walked" =>
          /\ res.ended
          /\ Len(res.walk) = Len(arg.lines)
          /\ OldTexts(heap, res.walk) = OldTexts(heap, OldPropIds(heap, vc).ids)

\* what the copy of a document with two or more properties is when
\* vprop_detach has come through its read of the NULL up link: a ring
C36_DupMakesRing ==
    (pc = "dup_walked" /\ Len(arg.lines) >= 2) =>
        /\ ~res.ended
        /\ heap.vp[heap.vo[res.copy].proplast].next = heap.vo[res.copy].props

\* the copy of a document without any property
C36_DupOfBare ==
    (arg.lines = <<>> /\ (arg.nchild = 0 \/ ~arg.deep)) =>
        /\ pc # "crashed"
        /\ pc = "dup_walked" => (res.ended /\ res.walk = <<>>)

---------------------------------------------------------------------------
(* vobject.c: vobject_append_line applied to bounded logical lines *)

MaxOldLineLen == 6

OldLines == StringsUpTo({"A", ";", ":", "\""}, MaxOldLineLen) \ {<<>>}

InitAppend ==
    /\ ParserIdle
    /\ pc = "append_call"
    /\ arg \in [line : OldLines]
    /\ res = [vp |-> 0, metas |-> <<>>]

\* vc = zalloc(sizeof(*vc)); vp = vobject_append_line(vc, line), and the walk
\* over its metadata with vprop_next_meta
AppendApply ==
    /\ pc = "append_call"
    /\ \E H \in {vobject_append_line(AllocVobject(EmptyHeap, <<"A">>).H, 1,
                                     arg.line)} :
         /\ heap' = H
         /\ res' = [vp |-> H.vo[1].proplast,
                    metas |-> OldMetas(H.vp[H.vo[1].proplast])]
    /\ pc' = "append_done"
    /\ UNCHANGED <<vc, saved, savedlen, savedsize, linenr, stream, callstart,
                   atEof, docs, arg>>

NextAppend == AppendApply

SpecAppend == InitAppend /\ [][NextAppend]_vars

---------------------------------------------------------------------------
(* C37 *)

\* the part of the line before its first unescaped ':'
OldHead(line) ==
    IF Unescaped(line, ":") = {} THEN line
    ELSE SubSeq(line, 1, Least(Unescaped(line, ":")) - 1)

\* the ';' of the line that vobject_append_line has replaced by NUL
OldCuts(vp, line) == {i \in 1..Len(line) : line[i] = ";" /\ vp.buf[i] = NUL}

\* C37: vobject_append_line treats every metadata separator escape-aware:
\* the ';' it turns into the end of a segment are exactly the ';' of the
\* metadata part that stand outside every quoted span, the first one and
\* every later one, so a quoted value that holds ';' stays in one segment.
C37_EscapeAwareSeparators ==
    pc = "append_done" =>
        OldCuts(heap.vp[res.vp], arg.line) = Unescaped(OldHead(arg.line), ";")

\* the ';' inside quoted spans behind the second separator of the line
OldLaterQuoted(line) ==
    LET head == OldHead(line)
        seps == Unescaped(head, ";")
        second == Least(seps \ {Least(seps)})
    IN IF Cardinality(seps) < 2 THEN {}
       ELSE {i \in (second + 1)..Len(head) :
                head[i] = ";" /\ i \notin seps}

\* lines without such a ';' are cut as the claim says
C37_FirstTwoSeparators ==
    (pc = "append_done" /\ OldLaterQuoted(arg.line) = {}) =>
        OldCuts(heap.vp[res.vp], arg.line) = Unescaped(OldHead(arg.line), ";")

\* every ';' behind the second separator is cut, quoted or not
C37_LaterSeparatorsPlain ==
    pc = "append_done" =>
        OldLaterQuoted(arg.line) \subseteq OldCuts(heap.vp[res.vp], arg.line)

---------------------------------------------------------------------------
(* appendprintf: the capacity of the line buffer, in unsigned arithmetic of  *)
(* SizeWidth bits                                                           *)

SizeWidth == 8
SizeMod == 2 ^ SizeWidth

BLOCKSZ == 64

\* ~(BLOCKSZ-1) is the int -BLOCKSZ; next to a size_t it is 2^w - BLOCKSZ
NotBlockMask == SizeMod - BLOCKSZ

\* appendprintf_size that rounds down to a multiple of BLOCKSZ
appendprintf_size_rounddown(size, pos, len) ==
    LET need == (pos + len + 1) % SizeMod
    IN IF need > size
       THEN [size |-> (need \div BLOCKSZ) * BLOCKSZ, grew |-> TRUE]
       ELSE [size |-> size, grew |-> FALSE]

\* vcardfilter.c lines 499-502: *psize after the test and the assignment
appendprintf_size(size, pos, len) ==
    LET need == (pos + len + 1) % SizeMod
    IN IF need > size
       THEN [size |-> ((need + BLOCKSZ - 1) % SizeMod) % NotBlockMask,
             grew |-> TRUE]
       ELSE [size |-> size, grew |-> FALSE]

\* the lengths vasprintf returns
PrintedLens == {0, 1, 30, 63, 64, 65, 100}

InitGrow ==
    /\ ParserIdle
    /\ pc = "grow"
    /\ arg = [pos |-> 0, len |-> 0]
    /\ res = [size |-> 0, fill |-> 0, grew |-> FALSE, overrun |-> FALSE]

\* vobject_write2 lines 522-527: fill = appendprintf(&line, &linesize, 0, ...)
\* for the key of the next property, fill += appendprintf(&line, &linesize,
\* fill, ...) for what follows it; strcpy then writes len + 1 bytes at pos
GrowAppend ==
    /\ pc = "grow"
    /\ \E len \in PrintedLens, pos \in {0, res.fill}, ub \in UbOutcomes :
         \E G \in {appendprintf_size(res.size, pos, len)} :
            /\ pos + len + 1 < SizeMod
            /\ arg' = [pos |-> pos, len |-> len]
            /\ res' = [size |-> G.size, fill |-> pos + len, grew |-> G.grew,
                       overrun |-> pos + len + 1 > G.size]
            /\ pc' = IF pos + len + 1 > G.size /\ ub = "crash"
                     THEN "crashed" ELSE "grow"
    /\ UNCHANGED parserVars

NextGrow == GrowAppend

SpecGrow == InitGrow /\ [][NextGrow]_vars

---------------------------------------------------------------------------
(* C38 *)

\* C38: appendprintf never writes past its buffer: whenever pos + len + 1
\* exceeds the current capacity, the new capacity computed by the
\* '% ~(BLOCKSZ-1)' expression is at least pos + len + 1, for every pos and
\* len with pos + len + 64 below 2^w - 64.
C38_CapacityCoversWrite ==
    (arg.pos + arg.len + 64 < SizeMod - 64) =>
        /\ res.grew => res.size >= arg.pos + arg.len + 1
        /\ ~res.overrun

\* a call that appends behind earlier text and has to grow the buffer
C38_Witness ==
    /\ arg.pos > 0
    /\ arg.pos + arg.len + 64 < SizeMod - 64
    /\ res.grew
    /\ res.size = arg.pos + arg.len + 64

\* beyond that range the remainder wraps and the buffer is too small
C38_RangeIsNeeded ==
    res.overrun => arg.pos + arg.len + 64 >= SizeMod - 64

---------------------------------------------------------------------------
(* C39 *)

\* C39: the unfolding accumulator of vobject_next is never written past its
\* capacity and savedlen always equals the length of the stored string: no
\* read of a physical line ends in a write outside the block, the stored
\* string with its terminator fits in savedsize bytes, and savedlen is its
\* length, for every sequence of physical lines, empty lines and lines ending
\* in \r\n included.
C39_AccumulatorInCapacity ==
    saved # <<>> =>
        /\ savedlen = strlenAt(saved, 1)
        /\ strlenAt(saved, 1) + 1 <= savedsize

\* the same for the streams read so far that hold no empty physical line
C39_WithoutEmptyLines ==
    (saved # <<>> /\ \A i \in 1..Len(stream) : ~EmptyPhysical(stream[i])) =>
        /\ savedlen = strlenAt(saved, 1)
        /\ strlenAt(saved, 1) + 1 <= savedsize

\* an empty line ending in \r\n has been read while a line was pending: the
\* byte \n was copied although the size test counted no byte
C39_UncountedByte ==
    /\ pc = "reading"
    /\ saved # <<>>
    /\ savedlen < strlenAt(saved, 1) - 1

---------------------------------------------------------------------------
(* C40 *)

\* the documents that have not been freed
OldLiveDocs(H) == {o \in 1..Len(H.vo) : H.vo[o].live}

\* every property in the list of document o points up to o's list head
OldUpLinks(H, o) ==
    \A i \in 1..Len(OldPropIds(H, o).ids) : H.vp[OldPropIds(H, o).ids[i]].up = -o

\* C40: every property in a document's property list has its up link set to
\* that document's list head, so vprop_detach, vprop_free and vobject_free
\* never read through a null up link and vobject_free completes on every
\* document that vobject_next returned.
C40_UpLinksSet ==
    /\ \A o \in OldLiveDocs(heap) : OldUpLinks(heap, o)
    /\ ~res.crashed

\* the properties that vprop_attach has put into the copy do point up to it
C40_AttachSetsUp ==
    pc \in {"dup_done", "dup_walked"} => OldUpLinks(heap, res.copy)

\* the properties that vobject_append_line has made have no up link at all
C40_AppendLeavesUpNull ==
    \A o \in OldLiveDocs(heap) :
       \A i \in 1..Len(OldPropIds(heap, o).ids) :
          heap.vp[OldPropIds(heap, o).ids[i]].up = 0

=============================================================================
